---- MODULE Spec2Model ----
(***************************************************************************)
(* Model of the transit real-time pipeline:                                *)
(*   - the GTFS-RT ingestion worker (workers/transit-gtfsrt-worker):       *)
(*     protobuf metadata reader, content de-duplication, blob + row write, *)
(*     the scheduled loop over the active feeds;                           *)
(*   - the RT API worker (gold/workers/transit-rt-api-worker): hot-window  *)
(*     listing, current-data handlers, historical handlers.                *)
(* Time is in milliseconds since the epoch (JavaScript Date values).       *)
(* Byte buffers are sequences over 0..255; cursor positions are 0-based as *)
(* in the source, so byte u8[pos] of the source is u8[pos + 1] here.       *)
(***************************************************************************)
EXTENDS Integers, Sequences, FiniteSets, TLC

\* ------------------------------------------------------------------ bounds
\* longest generated byte buffer of the decoder specification
MaxLen == 3
\* most top-level fields of a written envelope
MaxFields == 3
\* number of clock ticks the ingestion specification may take
MaxTicks == 1
\* most records the static worker's POST /log is let to write
MaxLogs == 2
\* most rows of one bucket an aggregate table is let to grow to, less one
MaxCopies == 2
\* number of half days the API specification may let pass
MaxElapses == 3
\* length of one clock tick of the ingestion specification, in ms
TickMs == 1000

\* -------------------------------------------------------- program constants
\* America/Toronto, standard time: local = UTC - 5 h (in ms)
TzOffsetMs == 18000000
MsPerSecond == 1000
MsPerDay == 86400000
MsPerHour == 3600000

\* ------------------------------------------------------------------ state
VARIABLES
  now,        \* wall clock, ms
  hashUnique, \* does rt_*_raw carry UNIQUE(provider_key, hash_sha256)?
  r2,         \* bronze bucket: set of objects [key, bytes, uploaded]
  rawRows,    \* rows of rt_trip_updates_raw / rt_vehicle_positions_raw
  ingestLog,  \* rows of ingest_log
  pc,         \* per scheduled run: position in scheduled()/saveRT()
  idx,        \* per scheduled run: index of the feed being processed
  ab,         \* per scheduled run: bytes of the current response body
  loc,        \* per scheduled run: locals of the current attempt
  attempts,   \* per run and feed: how the attempt ended
  doneHashes, \* (provider, kind, hash) of saveRT calls that have returned
  buf,        \* decoder specification: the input buffer
  dec,        \* decoder specification: the result of the last decode
  fields,     \* decoder specification: the fields the buffer was written from
  aggRows,    \* rows of the rt_delays_* aggregate tables
  aggregated, \* (provider, feed kind, date) partitions aggregation ran on
  resp,       \* API worker: the last response and what it cost
  seen,       \* API worker: historical answers given, by partition state
  logSecret,  \* static worker: env.LOG_SHARED_SECRET
  gtfsFiles   \* static worker: rows of gtfs_files

ingestVars == <<now, hashUnique, r2, rawRows, ingestLog, pc, idx, ab, loc,
                attempts, doneHashes>>
decodeVars == <<buf, dec, fields>>
queryVars == <<aggRows, aggregated, resp, seen>>
staticVars == <<logSecret, gtfsFiles>>

\* ------------------------------------------------- JavaScript number helpers
Undefined == -1

Pow2(n) == 2 ^ n

\* key >> 3 (the varints of the model stay below 2^31, where the ToInt32
\* conversion of the operand is the identity)
FieldNo(key) == key \div 8

\* key & 7
WireType(key) == key % 8

\* u8[pos]: an index outside the typed array reads undefined
ByteAt(u8, pos) == IF pos >= 0 /\ pos < Len(u8) THEN u8[pos + 1] ELSE Undefined

\* b & 0x7f (undefined converts to 0)
Low7(b) == IF b = Undefined THEN 0 ELSE b % 128

\* (b & 0x80) === 0 (undefined converts to 0)
NoContinuation(b) == b = Undefined \/ b < 128

\* Number(x) of a BigInt x of 2^31 - 1 or more: the varint is accumulated
\* without a width, and the model keeps every such value as this one
Huge == 2147483647

\* x | (BigInt(d) << s) for the next group d of 7 bits
orShifted(x, d, s) ==
  IF x = Huge THEN Huge
  ELSE IF d = 0 THEN x
  ELSE IF s > 28 \/ (s = 28 /\ d >= 8) THEN Huge
  ELSE x + d * Pow2(s)

\* ---------------------------------------------------------- protobuf reader
RECURSIVE readVarintLoop(_, _, _, _)
readVarintLoop(u8, pos, x, s) ==
  LET b == ByteAt(u8, pos)
      x2 == orShifted(x, Low7(b), s)
  IN IF NoContinuation(b)
       THEN [value |-> x2, next |-> pos + 1]
       ELSE readVarintLoop(u8, pos + 1, x2, s + 7)

readVarint(u8, i) == readVarintLoop(u8, i, 0, 0)

\* a length-delimited field skipped without its payload
skipField_payloadKept(u8, pos, wireType) ==
  CASE wireType = 0 -> readVarint(u8, pos).next
    [] wireType = 1 -> pos + 8
    [] wireType = 2 -> readVarint(u8, pos).next
    [] wireType = 5 -> pos + 4
    [] OTHER -> pos

\* a 32-bit field skipped as if it had 8 bytes
skipField_fixed32As64(u8, pos, wireType) ==
  CASE wireType = 0 -> readVarint(u8, pos).next
    [] wireType = 1 -> pos + 8
    [] wireType = 2 -> LET r == readVarint(u8, pos) IN r.next + r.value
    [] wireType = 5 -> pos + 8
    [] OTHER -> pos

skipField(u8, pos, wireType) ==
  CASE wireType = 0 -> readVarint(u8, pos).next
    [] wireType = 1 -> pos + 8
    [] wireType = 2 -> LET r == readVarint(u8, pos) IN r.next + r.value
    [] wireType = 5 -> pos + 4
    [] OTHER -> pos

\* One record per parse: ts is the result, iters the number of loop
\* iterations executed, oob the number of those that started with the
\* cursor at or beyond the end of the buffer.
RECURSIVE parseHeaderTimestampLoop(_, _, _, _, _, _)
parseHeaderTimestampLoop(u8, pos, end, ts, iters, oob) ==
  IF ~(pos < end)
    THEN [ts |-> ts, iters |-> iters, oob |-> oob]
  ELSE IF pos >= Len(u8)
    THEN
      \* the rest of the loop in one step: beyond the buffer every key
      \* reads as 0 (field 0, wire type 0) and skipField reads one more
      \* undefined byte, so each iteration advances the cursor by 2
      \* until it reaches end
      LET n == (end - pos + 1) \div 2
      IN [ts |-> ts, iters |-> iters + n, oob |-> oob + n]
    ELSE
      LET k == readVarint(u8, pos)
          fieldNo == FieldNo(k.value)
          wireType == WireType(k.value)
      IN IF fieldNo = 3 /\ wireType = 0
           THEN LET r == readVarint(u8, k.next)
                IN parseHeaderTimestampLoop(u8, r.next, end, r.value,
                                            iters + 1, oob)
           ELSE
             \* a wire type that skipField does not advance over (3, 4, 6,
             \* 7) leaves the cursor after the key only
             parseHeaderTimestampLoop(u8, skipField(u8, k.next, wireType),
                                      end, ts, iters + 1, oob)

Null == -2

parseHeaderTimestamp(u8, start, end) ==
  parseHeaderTimestampLoop(u8, start, end, Null, 0, 0)

\* acc carries the two results (entityCount, headerTsSec) and the
\* measurements of the run: iters and oob as above, overrun = a top-level
\* length-delimited field was seen whose length varint lies in the buffer
\* and whose declared end lies beyond it.  No statement of parseFeedMeta throws: the reads beyond the
\* buffer yield undefined, which the bit operations turn into 0.
RECURSIVE parseFeedMetaLoop(_, _, _)
parseFeedMetaLoop(u8, pos, acc) ==
  IF ~(pos < Len(u8))
    THEN acc
    ELSE
      LET k == readVarint(u8, pos)
          fieldNo == FieldNo(k.value)
          wireType == WireType(k.value)
          acc1 == [acc EXCEPT !.iters = @ + 1]
      IN IF wireType = 2
           THEN
             LET l == readVarint(u8, k.next)
                 subStart == l.next
                 subEnd == l.next + l.value
                 acc2 == [acc1 EXCEPT !.overrun =
                            @ \/ (subStart <= Len(u8) /\ subEnd > Len(u8))]
             IN IF fieldNo = 1
                  THEN
                    LET h == parseHeaderTimestamp(u8, subStart, subEnd)
                    IN parseFeedMetaLoop(u8, subEnd,
                         [acc2 EXCEPT
                            !.headerTsSec = IF h.ts # Null THEN h.ts ELSE @,
                            !.iters = @ + h.iters,
                            !.oob = @ + h.oob])
                  ELSE IF fieldNo = 2
                    THEN parseFeedMetaLoop(u8, subEnd,
                           [acc2 EXCEPT !.entityCount = @ + 1])
                    ELSE parseFeedMetaLoop(u8, subEnd, acc2)
           ELSE parseFeedMetaLoop(u8, skipField(u8, k.next, wireType), acc1)

parseFeedMeta(bytes) ==
  parseFeedMetaLoop(bytes, 0,
    [stage |-> "parsed", entityCount |-> 0, headerTsSec |-> Null,
     iters |-> 0, oob |-> 0, overrun |-> FALSE, threw |-> FALSE])

\* ---------------------------------------- protobuf reader of the API worker
\* readVarint, skipField and parseHeaderTimestamp of the API worker are the
\* same code as in the ingestion worker.  Strings are sequences of code
\* points.  A thrown exception is the field threw of the result.

\* a property that was never assigned (td.trip_id, vd.id of {})
AbsentStr == <<Undefined>>

\* a string property initialised to null
NullStr == <<Null>>

\* u8.subarray(begin, end): both indices are clamped to the array
subarray(u8, begin, end) ==
  LET b == IF begin > Len(u8) THEN Len(u8) ELSE begin
      e == IF end > Len(u8) THEN Len(u8) ELSE end
  IN IF e <= b THEN <<>> ELSE SubSeq(u8, b + 1, e)

\* new TextDecoder().decode(bytes): ASCII bytes are themselves, a byte that
\* is not part of a well-formed sequence becomes U+FFFD
TextDecode(bytes) ==
  [i \in 1 .. Len(bytes) |-> IF bytes[i] < 128 THEN bytes[i] ELSE 65533]

\* the cursor has left the buffer: from here on every key reads as 0 (field
\* 0, wire type 0), which no parser recognises, and skipField reads one more
\* undefined byte; each further iteration advances the cursor by 2 and
\* changes nothing else, so the loops of the API parsers stop here
LeftBuffer(u8, pos) == pos >= Len(u8)

RECURSIVE parseStopTimeEventLoop(_, _, _, _)
parseStopTimeEventLoop(u8, pos, end, ste) ==
  IF ~(pos < end) \/ LeftBuffer(u8, pos)
    THEN ste
    ELSE
      LET k == readVarint(u8, pos)
          fieldNo == FieldNo(k.value)
          wireType == WireType(k.value)
      IN IF fieldNo = 1 /\ wireType = 0
           THEN LET r == readVarint(u8, k.next)
                IN parseStopTimeEventLoop(u8, r.next, end,
                     [ste EXCEPT !.delay = r.value])
           ELSE IF fieldNo = 2 /\ wireType = 0
             THEN LET r == readVarint(u8, k.next)
                  IN parseStopTimeEventLoop(u8, r.next, end,
                       [ste EXCEPT !.time = r.value])
             ELSE parseStopTimeEventLoop(u8,
                    skipField(u8, k.next, wireType), end, ste)

parseStopTimeEvent(u8, start, end) ==
  parseStopTimeEventLoop(u8, start, end, [delay |-> Null, time |-> Null])

\* arrival and departure start as {}: their delay and time are undefined
\* until a stop time event is parsed
EmptyEvent == [delay |-> Undefined, time |-> Undefined]

RECURSIVE parseStopTimeUpdateLoop(_, _, _, _)
parseStopTimeUpdateLoop(u8, pos, end, stu) ==
  IF ~(pos < end) \/ LeftBuffer(u8, pos)
    THEN stu
    ELSE
      LET k == readVarint(u8, pos)
          fieldNo == FieldNo(k.value)
          wireType == WireType(k.value)
      IN IF wireType = 2
           THEN
             LET l == readVarint(u8, k.next)
                 subStart == l.next
                 subEnd == l.next + l.value
             IN parseStopTimeUpdateLoop(u8, subEnd, end,
                  IF fieldNo = 1
                    THEN [stu EXCEPT !.stop_id =
                            TextDecode(subarray(u8, subStart, subEnd))]
                  ELSE IF fieldNo = 2
                    THEN [stu EXCEPT !.arrival =
                            parseStopTimeEvent(u8, subStart, subEnd)]
                  ELSE IF fieldNo = 3
                    THEN [stu EXCEPT !.departure =
                            parseStopTimeEvent(u8, subStart, subEnd)]
                  ELSE stu)
           ELSE IF fieldNo = 4 /\ wireType = 0
             THEN LET r == readVarint(u8, k.next)
                  IN parseStopTimeUpdateLoop(u8, r.next, end,
                       [stu EXCEPT !.stop_sequence = r.value])
             ELSE parseStopTimeUpdateLoop(u8,
                    skipField(u8, k.next, wireType), end, stu)

parseStopTimeUpdate(u8, start, end) ==
  parseStopTimeUpdateLoop(u8, start, end,
    [stop_id |-> NullStr, stop_sequence |-> Null, arrival |-> EmptyEvent,
     departure |-> EmptyEvent])

\* new DataView(u8.buffer, u8.byteOffset + pos, 4) throws a RangeError when
\* the 4 bytes do not lie in the buffer
dataViewThrows(u8, pos) == pos + 4 > Len(u8)

\* view.getFloat32(pos, true) on a view of 4 bytes throws a RangeError
\* unless the offset is 0
getFloat32Throws(byteOffset) == byteOffset + 4 > 4

\* the little-endian single at view offset byteOffset of the view that
\* starts at viewStart
getFloat32(u8, viewStart, byteOffset) ==
  <<"f32", subarray(u8, viewStart + byteOffset, viewStart + byteOffset + 4)>>

RECURSIVE parsePositionLoop(_, _, _, _)
parsePositionLoop(u8, pos, end, pos_obj) ==
  IF ~(pos < end) \/ LeftBuffer(u8, pos)
    THEN pos_obj
    ELSE
      LET k == readVarint(u8, pos)
          fieldNo == FieldNo(k.value)
          wireType == WireType(k.value)
          p == k.next
          name == CASE fieldNo = 1 -> "latitude"
                    [] fieldNo = 2 -> "longitude"
                    [] fieldNo = 3 -> "bearing"
                    [] OTHER -> "speed"
      IN IF fieldNo \in 1 .. 4 /\ wireType = 5
           THEN IF dataViewThrows(u8, p) \/ getFloat32Throws(p)
                  THEN [pos_obj EXCEPT !.threw = TRUE]
                  ELSE parsePositionLoop(u8, p + 4, end,
                         [pos_obj EXCEPT ![name] = getFloat32(u8, p, p)])
           ELSE parsePositionLoop(u8, skipField(u8, p, wireType), end,
                                  pos_obj)

NoFloat == <<"null">>

parsePosition(u8, start, end) ==
  parsePositionLoop(u8, start, end,
    [latitude |-> NoFloat, longitude |-> NoFloat, bearing |-> NoFloat,
     speed |-> NoFloat, threw |-> FALSE])

\* position: {} before a position submessage is parsed
EmptyPosition ==
  [latitude |-> <<"undefined">>, longitude |-> <<"undefined">>,
   bearing |-> <<"undefined">>, speed |-> <<"undefined">>, threw |-> FALSE]

RECURSIVE parseVehicleDescriptorLoop(_, _, _, _)
parseVehicleDescriptorLoop(u8, pos, end, vd) ==
  IF ~(pos < end) \/ LeftBuffer(u8, pos)
    THEN vd
    ELSE
      LET k == readVarint(u8, pos)
          fieldNo == FieldNo(k.value)
          wireType == WireType(k.value)
      IN IF wireType = 2
           THEN
             LET l == readVarint(u8, k.next)
                 str == TextDecode(subarray(u8, l.next, l.next + l.value))
             IN parseVehicleDescriptorLoop(u8, l.next + l.value, end,
                  IF fieldNo = 1 THEN [vd EXCEPT !.id = str] ELSE vd)
           ELSE parseVehicleDescriptorLoop(u8,
                  skipField(u8, k.next, wireType), end, vd)

parseVehicleDescriptor(u8, start, end) ==
  parseVehicleDescriptorLoop(u8, start, end, [id |-> AbsentStr])

RECURSIVE parseTripDescriptorLoop(_, _, _, _)
parseTripDescriptorLoop(u8, pos, end, td) ==
  IF ~(pos < end) \/ LeftBuffer(u8, pos)
    THEN td
    ELSE
      LET k == readVarint(u8, pos)
          fieldNo == FieldNo(k.value)
          wireType == WireType(k.value)
      IN IF wireType = 2
           THEN
             LET l == readVarint(u8, k.next)
                 str == TextDecode(subarray(u8, l.next, l.next + l.value))
             IN parseTripDescriptorLoop(u8, l.next + l.value, end,
                  IF fieldNo = 1 THEN [td EXCEPT !.trip_id = str]
                  ELSE IF fieldNo = 3 THEN [td EXCEPT !.route_id = str]
                  ELSE td)
           ELSE parseTripDescriptorLoop(u8,
                  skipField(u8, k.next, wireType), end, td)

EmptyTrip == [trip_id |-> AbsentStr, route_id |-> AbsentStr]

parseTripDescriptor(u8, start, end) ==
  parseTripDescriptorLoop(u8, start, end, EmptyTrip)

RECURSIVE parseVehiclePositionLoop(_, _, _, _)
parseVehiclePositionLoop(u8, pos, end, vp) ==
  IF ~(pos < end) \/ LeftBuffer(u8, pos) \/ vp.threw
    THEN vp
    ELSE
      LET k == readVarint(u8, pos)
          fieldNo == FieldNo(k.value)
          wireType == WireType(k.value)
      IN IF wireType = 2
           THEN
             LET l == readVarint(u8, k.next)
                 subStart == l.next
                 subEnd == l.next + l.value
             IN parseVehiclePositionLoop(u8, subEnd, end,
                  IF fieldNo = 1
                    THEN [vp EXCEPT !.trip =
                            parseTripDescriptor(u8, subStart, subEnd)]
                  ELSE IF fieldNo = 2
                    THEN [vp EXCEPT !.vehicle =
                            parseVehicleDescriptor(u8, subStart, subEnd)]
                  ELSE IF fieldNo = 3
                    THEN LET q == parsePosition(u8, subStart, subEnd)
                         IN [vp EXCEPT !.position = q, !.threw = q.threw]
                  ELSE vp)
           ELSE IF fieldNo = 4 /\ wireType = 0
             THEN LET r == readVarint(u8, k.next)
                  IN parseVehiclePositionLoop(u8, r.next, end,
                       [vp EXCEPT !.timestamp = r.value])
             ELSE parseVehiclePositionLoop(u8,
                    skipField(u8, k.next, wireType), end, vp)

parseVehiclePosition(u8, start, end) ==
  parseVehiclePositionLoop(u8, start, end,
    [trip |-> EmptyTrip, vehicle |-> [id |-> AbsentStr],
     position |-> EmptyPosition, timestamp |-> Null, threw |-> FALSE])

RECURSIVE parseTripUpdateLoop(_, _, _, _)
parseTripUpdateLoop(u8, pos, end, tu) ==
  IF ~(pos < end) \/ LeftBuffer(u8, pos)
    THEN tu
    ELSE
      LET k == readVarint(u8, pos)
          fieldNo == FieldNo(k.value)
          wireType == WireType(k.value)
      IN IF wireType = 2
           THEN
             LET l == readVarint(u8, k.next)
                 subStart == l.next
                 subEnd == l.next + l.value
             IN parseTripUpdateLoop(u8, subEnd, end,
                  IF fieldNo = 1
                    THEN [tu EXCEPT !.trip =
                            parseTripDescriptor(u8, subStart, subEnd)]
                  ELSE IF fieldNo = 2
                    THEN [tu EXCEPT !.stop_time_update = Append(@,
                            parseStopTimeUpdate(u8, subStart, subEnd))]
                  ELSE tu)
           ELSE parseTripUpdateLoop(u8, skipField(u8, k.next, wireType),
                                    end, tu)

parseTripUpdate(u8, start, end) ==
  parseTripUpdateLoop(u8, start, end,
    [trip |-> EmptyTrip, stop_time_update |-> <<>>])

\* entity.trip_update and entity.vehicle are sequences of at most one
\* element: <<>> is null
RECURSIVE parseEntityLoop(_, _, _, _)
parseEntityLoop(u8, pos, end, entity) ==
  IF ~(pos < end) \/ LeftBuffer(u8, pos) \/ entity.threw
    THEN entity
    ELSE
      LET k == readVarint(u8, pos)
          fieldNo == FieldNo(k.value)
          wireType == WireType(k.value)
      IN IF wireType = 2
           THEN
             LET l == readVarint(u8, k.next)
                 subStart == l.next
                 subEnd == l.next + l.value
             IN parseEntityLoop(u8, subEnd, end,
                  IF fieldNo = 1
                    THEN [entity EXCEPT !.id =
                            TextDecode(subarray(u8, subStart, subEnd))]
                  ELSE IF fieldNo = 3
                    THEN [entity EXCEPT !.trip_update =
                            <<parseTripUpdate(u8, subStart, subEnd)>>]
                  ELSE IF fieldNo = 4
                    THEN LET v == parseVehiclePosition(u8, subStart, subEnd)
                         IN [entity EXCEPT !.vehicle = <<v>>,
                                           !.threw = v.threw]
                  ELSE entity)
           ELSE parseEntityLoop(u8, skipField(u8, k.next, wireType), end,
                                entity)

parseEntity(u8, start, end) ==
  parseEntityLoop(u8, start, end,
    [id |-> NullStr, trip_update |-> <<>>, vehicle |-> <<>>,
     threw |-> FALSE])

RECURSIVE parseFeedMessageLoop(_, _, _)
parseFeedMessageLoop(u8, pos, feedMsg) ==
  IF ~(pos < Len(u8)) \/ feedMsg.threw
    THEN feedMsg
    ELSE
      LET k == readVarint(u8, pos)
          fieldNo == FieldNo(k.value)
          wireType == WireType(k.value)
      IN IF wireType = 2
           THEN
             LET l == readVarint(u8, k.next)
                 subStart == l.next
                 subEnd == l.next + l.value
             IN parseFeedMessageLoop(u8, subEnd,
                  IF fieldNo = 1
                    THEN [feedMsg EXCEPT !.timestamp =
                            parseHeaderTimestamp(u8, subStart, subEnd).ts]
                  ELSE IF fieldNo = 2
                    THEN LET e == parseEntity(u8, subStart, subEnd)
                         IN [feedMsg EXCEPT !.entity = Append(@, e),
                                            !.threw = e.threw]
                  ELSE feedMsg)
           ELSE parseFeedMessageLoop(u8, skipField(u8, k.next, wireType),
                                     feedMsg)

\* feed.header.timestamp is the field timestamp
parseFeedMessage(bytes) ==
  parseFeedMessageLoop(bytes, 0,
    [timestamp |-> Null, entity |-> <<>>, threw |-> FALSE])

NoDec ==
  [stage |-> "input", entityCount |-> 0, headerTsSec |-> Null, iters |-> 0,
   oob |-> 0, overrun |-> FALSE, threw |-> FALSE]

\* bytes the generated buffers are made of: the tags of header (10),
\* entity (18), header timestamp (24), an unknown varint field (40), small
\* values and lengths, and a byte with the continuation bit
ByteAlphabet == {0, 2, 5, 10, 18, 24, 40, 128}

RECURSIVE SeqsUpTo(_, _)
SeqsUpTo(S, n) ==
  IF n = 0 THEN {<<>>}
  ELSE LET shorter == SeqsUpTo(S, n - 1)
       IN shorter \cup {Append(q, x) : q \in shorter, x \in S}

Buffers == SeqsUpTo(ByteAlphabet, MaxLen)

\* --------------------------------------------------------------- ingestion
\* feed_endpoints WHERE is_active = 1 AND feed_kind LIKE 'gtfsrt_%'
Feeds ==
  << [feed_id |-> 1, provider_key |-> "stm",
      feed_kind |-> "gtfsrt_trip_updates"],
     [feed_id |-> 2, provider_key |-> "stm",
      feed_kind |-> "gtfsrt_vehicle_positions"] >>

FeedIdx == 1 .. Len(Feeds)

\* overlapping cron triggers: two invocations of scheduled()
Runs == {"r1", "r2"}

\* the cron triggers fire one after the other
RunOrder == [r \in Runs |-> IF r = "r1" THEN 1 ELSE 2]

\* header { timestamp = 5 }, one entity
BodyA == <<10, 2, 24, 5, 18, 0>>
\* one entity, then field 1 (varint) whose value is cut after a byte with
\* the continuation bit
BodyTruncated == <<18, 0, 8, 128>>

\* bodies a feed server may answer with
FeedBodies == {BodyA, BodyTruncated}

\* parseFeedMeta on the bodies the servers answer with (evaluated once)
feedMetaOf == [body \in FeedBodies |-> parseFeedMeta(body)]

\* crypto.subtle.digest("SHA-256") rendered as hex: collision-free on the
\* buffers of the model, and never equal to the buffer itself
sha256Hex(bytes) == <<"sha256", bytes>>

fmtYMD_Montreal(d) == (d - TzOffsetMs) \div MsPerDay

\* "YYYY-MM-DDTHH-MM-SS": the local time truncated to the second
fmtISO_Montreal(d) == (d - TzOffsetMs) \div MsPerSecond

TableOf(kind) ==
  IF kind = "gtfsrt_trip_updates" THEN "rt_trip_updates_raw"
  ELSE "rt_vehicle_positions_raw"

\* `gtfs-rt/${pkey}/${kind}/dt=${date}/${kind}_${isoLocal}.pb`
PathOf(pkey, kind, d) ==
  <<"gtfs-rt", pkey, kind, fmtYMD_Montreal(d), kind, fmtISO_Montreal(d)>>

\* the lookup goes to the table of the other feed kind
rowExists_otherTable(rows, table, pkey, hash) ==
  \E row \in rows : /\ row.table # table
                     /\ row.provider_key = pkey
                     /\ row.hash_sha256 = hash

\* SELECT 1 FROM ${table} WHERE provider_key=?1 AND hash_sha256=?2
rowExists(rows, table, pkey, hash) ==
  \E row \in rows : /\ row.table = table
                     /\ row.provider_key = pkey
                     /\ row.hash_sha256 = hash

\* a unique index on (provider_key, hash_sha256) rejects a second row
uniqueViolation(rows, table, pkey, hash) ==
  \E row \in rows : /\ row.table = table
                     /\ row.provider_key = pkey
                     /\ row.hash_sha256 = hash

\* feedTsLocal of saveRT
feedTsLocal(headerTsSec) ==
  IF headerTsSec # Null /\ headerTsSec > 0
    THEN fmtISO_Montreal(headerTsSec * 1000)
    ELSE Null

\* R2.put: an object written under an existing key replaces it
r2Put(bucket, key, bytes, t) ==
  {o \in bucket : o.key # key} \cup
    {[key |-> key, bytes |-> bytes, uploaded |-> t]}

\* the failure leaves the loop
afterFailure_break(i) == Len(Feeds) + 1

\* the for-loop goes on with the next feed after `continue` and after the
\* catch block
afterFailure(i) == i + 1

\* priorDone: a saveRT call with the same provider, kind and bytes had
\* returned before this one started; raceLost: the row of another attempt
\* with the same hash was there when this attempt's INSERT ran
NoLoc ==
  [path |-> <<>>, entityCount |-> Null, feedTs |-> Null, err |-> "",
   priorDone |-> FALSE, raceLost |-> FALSE]

feed(r) == Feeds[idx[r]]

hashKey(r) == <<feed(r).provider_key, feed(r).feed_kind, sha256Hex(ab[r])>>

setAttempt(r, v) == [attempts EXCEPT ![r][idx[r]] = v]

logRow(r, level, message, r2_key) ==
  [level |-> level, message |-> message, r2_key |-> r2_key,
   provider_key |-> feed(r).provider_key, feed_id |-> feed(r).feed_id,
   id |-> <<r, idx[r]>>]

IngestIdle ==
  /\ now = 0
  /\ r2 = {}
  /\ rawRows = {}
  /\ ingestLog = {}
  /\ pc = [r \in Runs |-> "idle"]
  /\ idx = [r \in Runs |-> 1]
  /\ ab = [r \in Runs |-> <<>>]
  /\ loc = [r \in Runs |-> NoLoc]
  /\ attempts = [r \in Runs |-> [i \in FeedIdx |-> "none"]]
  /\ doneHashes = {}

IngestInit == hashUnique \in BOOLEAN /\ IngestIdle

\* scheduled(): the feed query has answered
Scheduled(r) ==
  /\ pc[r] = "idle"
  /\ \A q \in Runs : RunOrder[q] < RunOrder[r] => pc[q] # "idle"
  /\ pc' = [pc EXCEPT ![r] = "loop"]
  /\ idx' = [idx EXCEPT ![r] = 1]
  /\ UNCHANGED <<now, hashUnique, r2, rawRows, ingestLog, ab, loc, attempts,
                 doneHashes>>

\* await fetch(f.url, { headers }): no signal, no timeout; a server that
\* never answers leaves the promise pending
FetchBegin(r) ==
  /\ pc[r] = "loop"
  /\ idx[r] <= Len(Feeds)
  /\ \E answers \in BOOLEAN :
       pc' = [pc EXCEPT ![r] = IF answers THEN "fetching" ELSE "hung"]
  /\ attempts' = setAttempt(r, "fetching")
  /\ ab' = [ab EXCEPT ![r] = <<>>]
  /\ loc' = [loc EXCEPT ![r] = NoLoc]
  /\ UNCHANGED <<now, hashUnique, r2, rawRows, ingestLog, idx, doneHashes>>

\* the loop has run over every feed
Finish(r) ==
  /\ pc[r] = "loop"
  /\ idx[r] > Len(Feeds)
  /\ pc' = [pc EXCEPT ![r] = "done"]
  /\ ab' = [ab EXCEPT ![r] = <<>>]
  /\ loc' = [loc EXCEPT ![r] = NoLoc]
  /\ UNCHANGED <<now, hashUnique, r2, rawRows, ingestLog, idx, attempts,
                 doneHashes>>

\* fetch rejects (network error)
FetchThrows(r) ==
  /\ pc[r] = "fetching"
  /\ pc' = [pc EXCEPT ![r] = "catch"]
  /\ loc' = [loc EXCEPT ![r] = [NoLoc EXCEPT !.err = "fetch failed"]]
  /\ UNCHANGED <<now, hashUnique, r2, rawRows, ingestLog, idx, ab,
                 attempts, doneHashes>>

\* !res.ok
FetchNotOk(r) ==
  /\ pc[r] = "fetching"
  /\ pc' = [pc EXCEPT ![r] = "httperr"]
  /\ UNCHANGED <<now, hashUnique, r2, rawRows, ingestLog, idx, ab, loc,
                 attempts, doneHashes>>

\* res.ok, res.arrayBuffer() and sha256Hex(ab) resolved: saveRT is about
\* to run its lookup
FetchOk(r) ==
  /\ pc[r] = "fetching"
  /\ \E body \in FeedBodies :
       /\ ab' = [ab EXCEPT ![r] = body]
       /\ LET key == <<feed(r).provider_key, feed(r).feed_kind,
                       sha256Hex(body)>>
          IN loc' = [loc EXCEPT ![r] =
                      [NoLoc EXCEPT !.priorDone = key \in doneHashes]]
  /\ pc' = [pc EXCEPT ![r] = "lookup"]
  /\ UNCHANGED <<now, hashUnique, r2, rawRows, ingestLog, idx, attempts,
                 doneHashes>>

\* saveRT: the dedupe query finds a row; saveRT returns { skipped: true }
LookupHit(r) ==
  /\ pc[r] = "lookup"
  /\ rowExists(rawRows, TableOf(feed(r).feed_kind), feed(r).provider_key,
               sha256Hex(ab[r]))
  /\ attempts' = setAttempt(r, "skipped")
  /\ doneHashes' = doneHashes \cup {hashKey(r)}
  /\ pc' = [pc EXCEPT ![r] = "loop"]
  /\ idx' = [idx EXCEPT ![r] = @ + 1]
  /\ UNCHANGED <<now, hashUnique, r2, rawRows, ingestLog, ab, loc>>

\* saveRT: the dedupe query finds nothing; saveRT parses the meta data,
\* builds the path from the clock and issues R2.put
LookupMiss(r) ==
  /\ pc[r] = "lookup"
  /\ ~rowExists(rawRows, TableOf(feed(r).feed_kind), feed(r).provider_key,
                sha256Hex(ab[r]))
  /\ LET m == feedMetaOf[ab[r]]
     IN loc' = [loc EXCEPT ![r] =
                 [@ EXCEPT !.path = PathOf(feed(r).provider_key,
                                           feed(r).feed_kind, now),
                           !.entityCount = m.entityCount,
                           !.feedTs = feedTsLocal(m.headerTsSec)]]
  /\ pc' = [pc EXCEPT ![r] = "put"]
  /\ UNCHANGED <<now, hashUnique, r2, rawRows, ingestLog, idx, ab, attempts,
                 doneHashes>>

\* await env.R2.put(path, ab, ...)
Put(r) ==
  /\ pc[r] = "put"
  /\ r2' = r2Put(r2, loc[r].path, ab[r], now)
  /\ pc' = [pc EXCEPT ![r] = "insert"]
  /\ UNCHANGED <<now, hashUnique, rawRows, ingestLog, idx, ab, loc,
                 attempts, doneHashes>>

\* R2.put rejects
PutFails(r) ==
  /\ pc[r] = "put"
  /\ pc' = [pc EXCEPT ![r] = "catch"]
  /\ loc' = [loc EXCEPT ![r].err = "R2 put failed"]
  /\ UNCHANGED <<now, hashUnique, r2, rawRows, ingestLog, idx, ab,
                 attempts, doneHashes>>

\* INSERT INTO ${table} (...): a plain INSERT, the row is added
Insert(r) ==
  /\ pc[r] = "insert"
  /\ LET table == TableOf(feed(r).feed_kind)
         conflict == uniqueViolation(rawRows, table, feed(r).provider_key,
                                     sha256Hex(ab[r]))
     IN /\ ~(hashUnique /\ conflict)
        /\ rawRows' = rawRows \cup
             {[table |-> table,
               provider_key |-> feed(r).provider_key,
               feed_id |-> feed(r).feed_id,
               feed_ts |-> loc[r].feedTs,
               ingested_at |-> fmtISO_Montreal(now),
               hash_sha256 |-> sha256Hex(ab[r]),
               entity_count |-> loc[r].entityCount,
               rowid |-> <<r, idx[r]>>]}
        /\ loc' = [loc EXCEPT ![r].raceLost = conflict]
  /\ pc' = [pc EXCEPT ![r] = "loginfo"]
  /\ UNCHANGED <<now, hashUnique, r2, ingestLog, idx, ab, attempts,
                 doneHashes>>

\* the same INSERT against a table with a unique index on the hash, when a
\* row with this hash is there: the statement throws
InsertConflict(r) ==
  /\ pc[r] = "insert"
  /\ hashUnique
  /\ uniqueViolation(rawRows, TableOf(feed(r).feed_kind),
                     feed(r).provider_key, sha256Hex(ab[r]))
  /\ pc' = [pc EXCEPT ![r] = "catch"]
  /\ loc' = [loc EXCEPT ![r] =
               [@ EXCEPT !.err = "UNIQUE constraint failed",
                         !.raceLost = TRUE]]
  /\ UNCHANGED <<now, hashUnique, r2, rawRows, ingestLog, idx, ab, attempts,
                 doneHashes>>

\* the INSERT rejects for a reason of the database (D1 error)
InsertFails(r) ==
  /\ pc[r] = "insert"
  /\ pc' = [pc EXCEPT ![r] = "catch"]
  /\ loc' = [loc EXCEPT ![r].err = "D1 error"]
  /\ UNCHANGED <<now, hashUnique, r2, rawRows, ingestLog, idx, ab,
                 attempts, doneHashes>>

\* await log(env, "INFO", `Saved ${path}`, ...); saveRT returns
\* { skipped: false, path }
LogSaved(r) ==
  /\ pc[r] = "loginfo"
  /\ ingestLog' = ingestLog \cup {logRow(r, "INFO", "Saved", loc[r].path)}
  /\ attempts' = setAttempt(r, "saved")
  /\ doneHashes' = doneHashes \cup {hashKey(r)}
  /\ pc' = [pc EXCEPT ![r] = "loop"]
  /\ idx' = [idx EXCEPT ![r] = @ + 1]
  /\ UNCHANGED <<now, hashUnique, r2, rawRows, ab, loc>>

\* the loop goes on without the log call
LogHttp_silent(r) ==
  /\ pc[r] = "httperr"
  /\ attempts' = setAttempt(r, "http")
  /\ pc' = [pc EXCEPT ![r] = "loop"]
  /\ idx' = [idx EXCEPT ![r] = afterFailure(@)]
  /\ UNCHANGED <<now, hashUnique, r2, rawRows, ingestLog, ab, loc,
                 doneHashes>>

\* await log(env, "ERROR", `HTTP ${res.status} ...`); continue
LogHttp(r) ==
  /\ pc[r] = "httperr"
  /\ ingestLog' = ingestLog \cup {logRow(r, "ERROR", "HTTP", <<>>)}
  /\ attempts' = setAttempt(r, "http")
  /\ pc' = [pc EXCEPT ![r] = "loop"]
  /\ idx' = [idx EXCEPT ![r] = afterFailure(@)]
  /\ UNCHANGED <<now, hashUnique, r2, rawRows, ab, loc, doneHashes>>

\* catch (e) { await log(env, "ERROR", e?.message || String(e), ...) }
LogCatch(r) ==
  /\ pc[r] = "catch"
  /\ ingestLog' = ingestLog \cup {logRow(r, "ERROR", loc[r].err, <<>>)}
  /\ attempts' = setAttempt(r, "error")
  /\ pc' = [pc EXCEPT ![r] = "loop"]
  /\ idx' = [idx EXCEPT ![r] = afterFailure(@)]
  /\ UNCHANGED <<now, hashUnique, r2, rawRows, ab, loc, doneHashes>>

\* the wall clock advances
Tick ==
  /\ now < MaxTicks * TickMs
  /\ now' = now + TickMs
  /\ UNCHANGED <<hashUnique, r2, rawRows, ingestLog, pc, idx, ab, loc,
                 attempts, doneHashes>>

RunStep(r) ==
  /\ \/ Scheduled(r) \/ FetchBegin(r) \/ Finish(r)
     \/ FetchThrows(r) \/ FetchNotOk(r) \/ FetchOk(r)
     \/ LookupHit(r) \/ LookupMiss(r) \/ Put(r) \/ PutFails(r)
     \/ Insert(r) \/ InsertConflict(r) \/ InsertFails(r)
     \/ LogSaved(r) \/ LogHttp(r) \/ LogCatch(r)
  /\ UNCHANGED <<decodeVars, queryVars, staticVars>>

IngestNext ==
  \/ Tick /\ UNCHANGED <<decodeVars, queryVars, staticVars>>
  \/ \E r \in Runs : RunStep(r)

vars == <<ingestVars, decodeVars, queryVars, staticVars>>

DecodeIdle == buf = <<>> /\ dec = NoDec /\ fields = <<>>

NoResp ==
  [handler |-> "none", status |-> 0, error |-> "", items |-> <<>>,
   count |-> 0, feed_timestamp |-> Null, provider |-> "", feed_kind |-> "",
   date |-> <<>>, end_date |-> <<>>,
   lists |-> 0, gets |-> <<>>, decodes |-> 0]

QueryIdle ==
  /\ aggRows = {}
  /\ aggregated = {}
  /\ resp = NoResp
  /\ seen = {}

\* the static worker without a shared secret and with no file logged
StaticIdle == logSecret = AbsentStr /\ gtfsFiles = {}

Init == IngestInit /\ DecodeIdle /\ QueryIdle /\ StaticIdle

Next == IngestNext

Spec == Init /\ [][Next]_vars

\* The runtime resumes every continuation whose promise has settled, and a
\* server that answers does so eventually; nothing settles the fetch of a
\* server that stays silent.
LiveSpec == Spec /\ \A r \in Runs : WF_vars(RunStep(r))

\* --------------------------------------------------------------- API worker
\* hoursBack of listHotRTFiles as every handler passes it
HoursBack == 24

\* the window is half a day longer than asked for
getHoursAgo_halfDayMore(t, hours) == t - (hours + 12) * MsPerHour

\* getHoursAgo(hours) at clock t (the runtime's local time zone is UTC)
getHoursAgo(t, hours) == t - hours * MsPerHour

\* the objects under `gtfs-rt/${provider}/${feedKind}/dt=${date}/`
prefixObjects(bucket, provider, feedKind, date) ==
  {o \in bucket : /\ o.key[2] = provider
                  /\ o.key[3] = feedKind
                  /\ o.key[4] = date}

\* R2 list: the objects of a prefix in the order of their keys
RECURSIVE r2List(_)
r2List(objs) ==
  IF objs = {} THEN <<>>
  ELSE LET first == CHOOSE o \in objs :
                      \A other \in objs : o.key[6] <= other.key[6]
       IN <<first>> \o r2List(objs \ {first})

\* files.sort((a, b) => b.uploaded - a.uploaded): stable, descending
RECURSIVE insertDesc_ascending(_, _)
insertDesc_ascending(sorted, f) ==
  IF sorted = <<>> THEN <<f>>
  ELSE IF Head(sorted).uploaded <= f.uploaded
    THEN <<Head(sorted)>> \o insertDesc_ascending(Tail(sorted), f)
    ELSE <<f>> \o sorted

RECURSIVE insertDesc(_, _)
insertDesc(sorted, f) ==
  IF sorted = <<>> THEN <<f>>
  ELSE IF Head(sorted).uploaded >= f.uploaded
    THEN <<Head(sorted)>> \o insertDesc(Tail(sorted), f)
    ELSE <<f>> \o sorted

RECURSIVE sortDesc(_)
sortDesc(files) ==
  IF files = <<>> THEN <<>>
  ELSE insertDesc(sortDesc(SubSeq(files, 1, Len(files) - 1)),
                  files[Len(files)])

\* timestamp >= threshold
isHot(uploaded, threshold) == uploaded >= threshold

listHotRTFiles(bucket, provider, feedKind, hoursBack, t) ==
  LET threshold == getHoursAgo(t, hoursBack)
      thresholdDate == fmtYMD_Montreal(threshold)
      today == fmtYMD_Montreal(t)
      listed == r2List(prefixObjects(bucket, provider, feedKind,
                                     thresholdDate))
                \o r2List(prefixObjects(bucket, provider, feedKind, today))
      hot == SelectSeq(listed, LAMBDA o : isHot(o.uploaded, threshold))
  IN sortDesc([i \in 1 .. Len(hot) |->
                 [key |-> hot[i].key, uploaded |-> hot[i].uploaded]])

\* readHotRTFile: the bytes stored under the key
readHotRTFile(bucket, key) == (CHOOSE o \in bucket : o.key = key).bytes

\* ---- test messages (protobuf writers for the fields the parsers know)
LenDelim(fieldNo, payload) == <<fieldNo * 8 + 2, Len(payload)>> \o payload

VarintField(fieldNo, v) == <<fieldNo * 8, v>>

TripEntity(id, trip, route, stop, delay) ==
  LenDelim(2,
    LenDelim(1, <<id>>) \o
    LenDelim(3,
      LenDelim(1, LenDelim(1, <<trip>>) \o LenDelim(3, <<route>>)) \o
      LenDelim(2, LenDelim(1, <<stop>>) \o
                  LenDelim(2, VarintField(1, delay)))))

VehicleEntity(id, vehicle, route, ts) ==
  LenDelim(2,
    LenDelim(1, <<id>>) \o
    LenDelim(4,
      LenDelim(1, LenDelim(3, <<route>>)) \o
      LenDelim(2, LenDelim(1, <<vehicle>>)) \o
      VarintField(4, ts)))

\* route "R" (82), stop "S" (83), trips "T" (84) and "U" (85)
TripBodyOld == LenDelim(1, VarintField(3, 5)) \o TripEntity(49, 84, 82, 83, 5)

TripBodyNew ==
  LenDelim(1, VarintField(3, 6)) \o TripEntity(49, 84, 82, 83, 7)
    \o TripEntity(50, 85, 81, 83, 3)

VehicleBody == LenDelim(1, VarintField(3, 5)) \o VehicleEntity(49, 86, 82, 9)

\* the vehicle of VehicleBody, then a vehicle with a position: latitude as
\* a fixed32 of four zero bytes
VehicleBodyPosition ==
  LenDelim(1, VarintField(3, 7)) \o
  VehicleEntity(49, 86, 82, 9) \o
  LenDelim(2, LenDelim(1, <<50>>) \o
              LenDelim(4, LenDelim(3, <<13, 0, 0, 0, 0>>)))

\* a trip update whose trip descriptor names no route: trip "T", stop "S",
\* arrival delay 4
TripBodyNoRoute ==
  LenDelim(1, VarintField(3, 4)) \o
  LenDelim(2,
    LenDelim(1, <<51>>) \o
    LenDelim(3,
      LenDelim(1, LenDelim(1, <<84>>)) \o
      LenDelim(2, LenDelim(1, <<83>>) \o LenDelim(2, VarintField(1, 4)))))

\* two trip updates of one trip at one stop: route "R", stop "S", trip "T",
\* arrival delays 1 and 3
TripBodyTwo ==
  LenDelim(1, VarintField(3, 8)) \o TripEntity(49, 84, 82, 83, 1)
    \o TripEntity(50, 84, 82, 83, 3)

\* a trip update of trip "T" on route "R" with two stop time updates (stop
\* "S" delay 2, stop "V" delay 4) and one of trip "U" on route "Q" with one
TripBodyMulti ==
  LenDelim(1, VarintField(3, 9)) \o
  LenDelim(2,
    LenDelim(1, <<49>>) \o
    LenDelim(3,
      LenDelim(1, LenDelim(1, <<84>>) \o LenDelim(3, <<82>>)) \o
      LenDelim(2, LenDelim(1, <<83>>) \o LenDelim(2, VarintField(1, 2))) \o
      LenDelim(2, LenDelim(1, <<86>>) \o LenDelim(2, VarintField(1, 4)))))
    \o TripEntity(50, 85, 81, 83, 3)

\* the trip update snapshots of the current data specification
CurrentBodies == {TripBodyOld, TripBodyMulti}

\* the snapshots the aggregation specification stores
AggBodies == {TripBodyOld, TripBodyNoRoute, TripBodyTwo}

QueryFeeds ==
  << [feed_id |-> 1, provider_key |-> "stm",
      feed_kind |-> "gtfsrt_trip_updates",
      bodies |-> {TripBodyOld, TripBodyNew}],
     [feed_id |-> 2, provider_key |-> "stm",
      feed_kind |-> "gtfsrt_vehicle_positions",
      bodies |-> {VehicleBody, VehicleBodyPosition}] >>

\* parseFeedMessage on the stored bodies (evaluated once)
feedMessageOf ==
  [body \in AggBodies \cup CurrentBodies \cup
             UNION {QueryFeeds[i].bodies : i \in 1 .. Len(QueryFeeds)}
     |-> parseFeedMessage(body)]

\* a query parameter is <<>> when it is not given, else <<value>>
Given(param) == param # <<>>

\* ---- one whole saveRT call that stores a new snapshot
SaveSnapshot(i, body) ==
  LET f == QueryFeeds[i]
      table == TableOf(f.feed_kind)
      m == parseFeedMeta(body)
      path == PathOf(f.provider_key, f.feed_kind, now)
  IN /\ ~rowExists(rawRows, table, f.provider_key, sha256Hex(body))
     /\ r2' = r2Put(r2, path, body, now)
     /\ rawRows' = rawRows \cup
          {[table |-> table, provider_key |-> f.provider_key,
            feed_id |-> f.feed_id, feed_ts |-> feedTsLocal(m.headerTsSec),
            ingested_at |-> fmtISO_Montreal(now),
            hash_sha256 |-> sha256Hex(body),
            entity_count |-> m.entityCount,
            rowid |-> <<f.feed_kind, now>>]}
     /\ ingestLog' = ingestLog \cup
          {[level |-> "INFO", message |-> "Saved", r2_key |-> path,
            provider_key |-> f.provider_key, feed_id |-> f.feed_id,
            id |-> <<f.feed_kind, now>>]}
     /\ UNCHANGED <<now, hashUnique, pc, idx, ab, loc, attempts,
                    doneHashes, decodeVars, queryVars, staticVars>>

\* half a day passes
Elapse ==
  /\ now < MaxElapses * 12 * MsPerHour
  /\ now' = now + 12 * MsPerHour
  /\ UNCHANGED <<hashUnique, r2, rawRows, ingestLog, pc, idx, ab, loc,
                 attempts, doneHashes, decodeVars, queryVars, staticVars>>

\* ---- current data
\* the loop of handleCurrentTripUpdates over one entity's stop time updates
RECURSIVE tripUpdateItems(_, _, _)
tripUpdateItems(tu, stus, stopId) ==
  IF stus = <<>> THEN <<>>
  ELSE
    LET stu == Head(stus)
        rest == tripUpdateItems(tu, Tail(stus), stopId)
    IN IF Given(stopId) /\ stu.stop_id # stopId[1]
         THEN rest
         ELSE <<[trip_id |-> tu.trip.trip_id,
                 route_id |-> tu.trip.route_id,
                 stop_id |-> stu.stop_id,
                 stop_sequence |-> stu.stop_sequence,
                 arrival_delay |-> stu.arrival.delay,
                 departure_delay |-> stu.departure.delay,
                 arrival_time |-> stu.arrival.time,
                 departure_time |-> stu.departure.time]>> \o rest

\* the loop of handleCurrentTripUpdates over the entities
RECURSIVE tripUpdates(_, _, _)
tripUpdates(entities, routeId, stopId) ==
  IF entities = <<>> THEN <<>>
  ELSE
    LET entity == Head(entities)
        rest == tripUpdates(Tail(entities), routeId, stopId)
    IN IF entity.trip_update = <<>> THEN rest
       ELSE LET tu == entity.trip_update[1]
            IN IF Given(routeId) /\ tu.trip.route_id # routeId[1]
                 THEN rest
                 ELSE tripUpdateItems(tu, tu.stop_time_update, stopId)
                        \o rest

\* the loop of handleCurrentPositions over the entities
RECURSIVE positions(_, _, _)
positions(entities, routeId, vehicleId) ==
  IF entities = <<>> THEN <<>>
  ELSE
    LET entity == Head(entities)
        rest == positions(Tail(entities), routeId, vehicleId)
    IN IF entity.vehicle = <<>> THEN rest
       ELSE LET vp == entity.vehicle[1]
            IN IF Given(routeId) /\ vp.trip.route_id # routeId[1]
                 THEN rest
               ELSE IF Given(vehicleId) /\ vp.vehicle.id # vehicleId[1]
                 THEN rest
               ELSE <<[vehicle_id |-> vp.vehicle.id,
                       trip_id |-> vp.trip.trip_id,
                       route_id |-> vp.trip.route_id,
                       latitude |-> vp.position.latitude,
                       longitude |-> vp.position.longitude,
                       bearing |-> vp.position.bearing,
                       speed |-> vp.position.speed,
                       timestamp |-> vp.timestamp]>> \o rest

\* what handleCurrentTripUpdates and handleCurrentPositions share: list the
\* hot files, read files[0], parse it, collect the items; an exception of
\* the parser becomes the 500 of the fetch handler's catch
\* files[0] of the hot files and what parseFeedMessage makes of its bytes,
\* or nothing when there is no hot file
latestDecoded(provider, feedKind) ==
  LET files == listHotRTFiles(r2, provider, feedKind, HoursBack, now)
  IN IF Len(files) = 0 THEN <<>>
     ELSE <<[key |-> files[1].key,
             feedMsg |-> feedMessageOf[readHotRTFile(r2, files[1].key)]]>>

currentAnswer(handler, feedKind, provider, latest, items(_)) ==
  IF latest = <<>>
    THEN [NoResp EXCEPT !.handler = handler, !.status = 200,
                        !.provider = provider,
                        !.feed_kind = feedKind, !.lists = 2]
  ELSE IF latest[1].feedMsg.threw
    THEN [NoResp EXCEPT !.handler = handler, !.status = 500,
                        !.provider = provider,
                        !.feed_kind = feedKind,
                        !.error = "RangeError", !.lists = 2,
                        !.gets = <<latest[1].key>>, !.decodes = 1]
  ELSE [NoResp EXCEPT !.handler = handler, !.status = 200,
                      !.provider = provider,
                      !.feed_kind = feedKind,
                      !.items = items(latest[1].feedMsg.entity),
                      !.feed_timestamp = latest[1].feedMsg.timestamp,
                      !.lists = 2, !.gets = <<latest[1].key>>,
                      !.decodes = 1]

currentResponse(handler, feedKind, provider, items(_)) ==
  CHOOSE answer \in
    {currentAnswer(handler, feedKind, provider, latest, items) :
       latest \in {latestDecoded(provider, feedKind)}} : TRUE

Providers == {"stm"}
\* the filters of a request: none, or route "R" with stop "S"
FilterParams == {[route_id |-> <<>>, stop_id |-> <<>>],
                 [route_id |-> <<<<82>>>>, stop_id |-> <<<<83>>>>]}

handleCurrentTripUpdates ==
  /\ \E provider \in Providers, filter \in FilterParams :
       resp' = currentResponse("current", "gtfsrt_trip_updates", provider,
                 LAMBDA es : tripUpdates(es, filter.route_id,
                                         filter.stop_id))
  /\ UNCHANGED <<ingestVars, decodeVars, aggRows, aggregated, seen,
                 staticVars>>

handleCurrentPositions ==
  /\ \E provider \in Providers, filter \in FilterParams :
       resp' = currentResponse("positions", "gtfsrt_vehicle_positions",
                 provider, LAMBDA es : positions(es, filter.route_id, <<>>))
  /\ UNCHANGED <<ingestVars, decodeVars, aggRows, aggregated, seen,
                 staticVars>>

\* ---- aggregation of cold snapshots into the delay tables
\* the local hour of an instant
hourOf(t) == ((t - TzOffsetMs) % MsPerDay) \div MsPerHour

\* the snapshots of a partition that are older than the hot window
coldSnapshots(bucket, provider, feedKind, date, t) ==
  {o \in prefixObjects(bucket, provider, feedKind, date) :
     o.uploaded <= getHoursAgo(t, HoursBack)}

\* one fact per stop time update that carries an arrival delay
tripUpdateFacts(o, e, tu) ==
  {[src |-> <<o.key, e, j>>,
    hour |-> hourOf(o.uploaded),
    route_id |-> tu.trip.route_id,
    stop_id |-> tu.stop_time_update[j].stop_id,
    trip_id |-> tu.trip.trip_id,
    delay |-> tu.stop_time_update[j].arrival.delay]
     : j \in {k \in 1 .. Len(tu.stop_time_update) :
                tu.stop_time_update[k].arrival.delay # Null}}

delayFacts(o) ==
  UNION {tripUpdateFacts(o, e[1], e[2].trip_update[1]) :
           e \in {x \in {<<i, feedMessageOf[o.bytes].entity[i]>> :
                            i \in 1 .. Len(feedMessageOf[o.bytes].entity)} :
                    x[2].trip_update # <<>>}}

RECURSIVE sumDelay(_)
sumDelay(facts) ==
  IF facts = {} THEN 0
  ELSE LET f == CHOOSE x \in facts : TRUE
       IN f.delay + sumDelay(facts \ {f})

maxDelay(facts) == CHOOSE d \in {f.delay : f \in facts} :
                     \A f \in facts : f.delay <= d

minDelay(facts) == CHOOSE d \in {f.delay : f \in facts} :
                     \A f \in facts : d <= f.delay

\* one row of a delay table from the facts of one key; the average is kept
\* as the exact fraction <<sum, n>>
delayRow(table, provider, date, hour, facts) ==
  LET f == CHOOSE x \in facts : TRUE
  IN [table |-> table, provider_key |-> provider, date |-> date,
      hour |-> hour, route_id |-> f.route_id, stop_id |-> f.stop_id,
      trip_id |-> f.trip_id,
      avg_arrival_delay |-> <<sumDelay(facts), Cardinality(facts)>>,
      max_arrival_delay |-> maxDelay(facts),
      min_arrival_delay |-> minDelay(facts),
      trip_count |-> Cardinality(facts), copy |-> 0]

sameKey(f, g) ==
  /\ f.route_id = g.route_id
  /\ f.stop_id = g.stop_id
  /\ f.trip_id = g.trip_id

dailyRows(provider, date, facts) ==
  {delayRow("rt_delays_daily", provider, date, Null,
            {g \in facts : sameKey(f, g)}) : f \in facts}

hourlyRows(provider, date, facts) ==
  {delayRow("rt_delays_hourly", provider, date, f.hour,
            {g \in facts : sameKey(f, g) /\ g.hour = f.hour}) : f \in facts}

\* two rows are of one bucket: the same table and the same values in all
\* the key columns, NULL being a value like any other
sameBucket(a, b) ==
  /\ a.table = b.table
  /\ a.provider_key = b.provider_key
  /\ a.date = b.date
  /\ a.hour = b.hour
  /\ a.route_id = b.route_id
  /\ a.stop_id = b.stop_id
  /\ a.trip_id = b.trip_id

\* a text the decoder left undefined or null is stored as NULL
isSqlNull(v) == v \in {AbsentStr, NullStr}

\* a key column declared without NOT NULL that compares every value,
\* NULL as well, as equal to itself
keyColumnEqual_nullIsValue(x, y) == x = y

\* route_id, stop_id and trip_id are declared TEXT without NOT NULL: in the
\* uniqueness of the key a NULL differs from every value and from
\* every other NULL
keyColumnEqual(x, y) == ~isSqlNull(x) /\ x = y

\* PRIMARY KEY of the delay tables: the conflict an upsert overwrites on
samePrimaryKey(a, b) ==
  /\ a.table = b.table
  /\ a.provider_key = b.provider_key
  /\ a.date = b.date
  /\ a.hour = b.hour
  /\ keyColumnEqual(a.route_id, b.route_id)
  /\ keyColumnEqual(a.stop_id, b.stop_id)
  /\ keyColumnEqual(a.trip_id, b.trip_id)

\* the rows after an upsert by primary key; copy numbers a new row among the
\* rows of its bucket that stay
upsert(rows, new) ==
  LET kept == {r \in rows : \A n \in new : ~samePrimaryKey(r, n)}
  IN kept \cup
       {[n EXCEPT !.copy = Cardinality({r \in kept : sameBucket(r, n)})] :
          n \in new}

\* the facts of the cold trip update snapshots of a partition
partitionFacts(bucket, provider, date, t) ==
  UNION {delayFacts(o) :
           o \in coldSnapshots(bucket, provider, "gtfsrt_trip_updates", date,
                               t)}

QueryDates == {fmtYMD_Montreal(k * 12 * MsPerHour) : k \in 0 .. MaxElapses}

\* one run of the aggregation over a (provider, feed kind, date) partition
Aggregate ==
  /\ \A row \in aggRows : row.copy < MaxCopies
  /\ \E provider \in Providers, date \in QueryDates :
       \E facts \in {partitionFacts(r2, provider, date, now)} :
          /\ aggRows' = upsert(aggRows, dailyRows(provider, date, facts)
                                  \cup hourlyRows(provider, date, facts))
          /\ aggregated' = aggregated \cup
               {<<provider, "gtfsrt_trip_updates", date>>}
  /\ UNCHANGED <<ingestVars, decodeVars, resp, seen,
                 staticVars>>

\* ---- historical data
FeedKinds == {"gtfsrt_trip_updates", "gtfsrt_vehicle_positions"}
DateParams == {<<>>} \cup {<<d>> : d \in QueryDates}
HourParams == {<<>>, <<hourOf(0)>>}
\* start and end of a range request: not given, one day, all days
RangeParams ==
  {[start |-> <<>>, end |-> <<>>]} \cup
  {[start |-> <<fmtYMD_Montreal(0)>>, end |-> <<d>>] :
     d \in {fmtYMD_Montreal(0), fmtYMD_Montreal(MaxElapses * 12 * MsPerHour)}}
NoFilter == [route_id |-> <<>>, stop_id |-> <<>>]

tableName(feedKind, aggregation) ==
  IF feedKind = "gtfsrt_trip_updates"
    THEN IF aggregation = "hourly" THEN "rt_delays_hourly"
                                   ELSE "rt_delays_daily"
    ELSE IF aggregation = "hourly" THEN "rt_positions_hourly"
                                   ELSE "rt_positions_daily"

\* queryD1Historical: the rows of the SELECT, or null when the query throws
queryD1Historical(db, dbFails, provider, feedKind, date, aggregation, hour, routeId, stopId) ==
  IF dbFails THEN [isNull |-> TRUE, results |-> {}]
  ELSE
    [isNull |-> FALSE,
     results |->
       {row \in db :
          /\ row.table = tableName(feedKind, aggregation)
          /\ row.provider_key = provider
          /\ row.date = date
          /\ (aggregation = "hourly" /\ hour # Null => row.hour = hour)
          /\ (Given(routeId) => row.route_id = routeId[1])
          /\ (feedKind = "gtfsrt_trip_updates" /\ Given(stopId)
                => row.stop_id = stopId[1])}]

\* the answer of handleHistorical, which falls back on the snapshots when
\* the tables have nothing
historicalResponse_fallback(db, bucket, dbFails, provider, feedKind, date, hour, routeId, stopId) ==
  IF ~Given(date)
    THEN [NoResp EXCEPT !.handler = "historical", !.status = 400,
                        !.provider = provider,
                        !.feed_kind = feedKind,
                        !.error = "date parameter required"]
    ELSE
      LET aggregation == IF Given(hour) THEN "hourly" ELSE "daily"
          data == queryD1Historical(db, dbFails, provider, feedKind,
                    date[1], aggregation,
                    IF Given(hour) THEN hour[1] ELSE Null, routeId, stopId)
          objs == r2List(prefixObjects(bucket, provider, feedKind, date[1]))
      IN IF data.isNull \/ Cardinality(data.results) = 0
           THEN IF objs = <<>>
             THEN [NoResp EXCEPT !.handler = "historical", !.status = 404,
                                 !.provider = provider,
                                 !.feed_kind = feedKind, !.date = date,
                                 !.lists = 1,
                                 !.error = "Historical data not found"]
             ELSE [NoResp EXCEPT !.handler = "historical", !.status = 200,
                                 !.provider = provider,
                                 !.feed_kind = feedKind, !.date = date,
                                 !.lists = 1, !.gets = <<objs[1].key>>,
                                 !.decodes = 1]
           ELSE [NoResp EXCEPT !.handler = "historical", !.status = 200,
                               !.provider = provider,
                               !.feed_kind = feedKind, !.date = date,
                               !.count = Cardinality(data.results)]

\* the answer of handleHistorical
historicalResponse(db, bucket, dbFails, provider, feedKind, date, hour, routeId, stopId) ==
  IF ~Given(date)
    THEN [NoResp EXCEPT !.handler = "historical", !.status = 400,
                        !.provider = provider,
                        !.feed_kind = feedKind,
                        !.error = "date parameter required"]
    ELSE
      LET aggregation == IF Given(hour) THEN "hourly" ELSE "daily"
          data == queryD1Historical(db, dbFails, provider, feedKind,
                    date[1], aggregation,
                    IF Given(hour) THEN hour[1] ELSE Null, routeId, stopId)
      IN IF data.isNull \/ Cardinality(data.results) = 0
           THEN [NoResp EXCEPT !.handler = "historical", !.status = 404,
                               !.provider = provider,
                               !.feed_kind = feedKind, !.date = date,
                               !.error = "Historical data not found"]
           ELSE [NoResp EXCEPT !.handler = "historical", !.status = 200,
                               !.provider = provider,
                               !.feed_kind = feedKind, !.date = date,
                               !.count = Cardinality(data.results)]

\* which of the cases of a historical query a request is
queryCase(dbFails, provider, feedKind, date, found) ==
  IF dbFails THEN "failed"
  ELSE IF <<provider, feedKind, date>> \notin aggregated THEN "never"
  ELSE IF found THEN "rows"
  ELSE "empty"

handleHistorical ==
  /\ \E provider \in Providers, feedKind \in FeedKinds, date \in DateParams,
        hour \in HourParams, filter \in FilterParams, dbFails \in BOOLEAN :
       \* what a failed query answers depends on no filter: one request
       \* stands for them
       /\ dbFails => hour = <<>> /\ filter = NoFilter
       /\ LET r == historicalResponse(aggRows, r2, dbFails, provider,
                                      feedKind, date, hour, filter.route_id,
                                      filter.stop_id)
          IN /\ resp' = r
             /\ seen' = IF Given(date)
                  THEN seen \cup
                         {[case |-> queryCase(dbFails, provider, feedKind,
                                              date[1], r.status = 200),
                           status |-> r.status, error |-> r.error]}
                  ELSE seen
  /\ UNCHANGED <<ingestVars, decodeVars, aggRows, aggregated,
                 staticVars>>

\* the answer of handleHistoricalRange
rangeResponse(db, dbFails, provider, feedKind, startDate, endDate, routeId, stopId) ==
  IF ~Given(startDate) \/ ~Given(endDate)
    THEN [NoResp EXCEPT !.handler = "range", !.status = 400,
                        !.provider = provider,
                        !.feed_kind = feedKind,
                        !.error = "start and end date parameters required"]
  ELSE IF dbFails
    THEN [NoResp EXCEPT !.handler = "range", !.status = 500,
                        !.provider = provider,
                        !.feed_kind = feedKind, !.date = startDate,
                        !.error = "Internal server error"]
  ELSE
    LET results ==
          {row \in db :
             /\ row.table = tableName(feedKind, "daily")
             /\ row.provider_key = provider
             /\ row.date >= startDate[1]
             /\ row.date <= endDate[1]
             /\ (Given(routeId) => row.route_id = routeId[1])
             /\ (Given(stopId) /\ feedKind = "gtfsrt_trip_updates"
                   => row.stop_id = stopId[1])}
    IN [NoResp EXCEPT !.handler = "range", !.status = 200,
                      !.provider = provider,
                      !.feed_kind = feedKind, !.date = startDate,
                      !.count = Cardinality(results)]

handleHistoricalRange ==
  /\ \E provider \in Providers, feedKind \in FeedKinds,
        range \in RangeParams, filter \in FilterParams,
        dbFails \in BOOLEAN :
       /\ dbFails => filter = NoFilter
       /\ resp' = rangeResponse(aggRows, dbFails, provider, feedKind,
                                range.start, range.end, filter.route_id,
                                filter.stop_id)
  /\ UNCHANGED <<ingestVars, decodeVars, aggRows, aggregated, seen,
                 staticVars>>

\* ---- status
\* one entry of hot_data: files[0]?.key || null, files[0]?.uploaded || null
\* (a Date object, never falsy), files.length
hotData(files) ==
  [latest_file |-> IF Len(files) = 0 THEN <<>> ELSE <<files[1].key>>,
   latest_timestamp |-> IF Len(files) = 0 THEN <<>>
                        ELSE <<files[1].uploaded>>,
   file_count |-> Len(files)]

statusResponse(tripFiles, posFiles) ==
  [NoResp EXCEPT !.handler = "status", !.status = 200, !.provider = "stm",
                 !.items = <<hotData(tripFiles), hotData(posFiles)>>,
                 !.lists = 4]

handleStatus ==
  /\ \E tripFiles \in {listHotRTFiles(r2, "stm", "gtfsrt_trip_updates",
                                       HoursBack, now)} :
       \E posFiles \in {listHotRTFiles(r2, "stm", "gtfsrt_vehicle_positions",
                                        HoursBack, now)} :
         resp' = statusResponse(tripFiles, posFiles)
  /\ UNCHANGED <<ingestVars, decodeVars, aggRows, aggregated, seen,
                 staticVars>>

\* ---- analytics over the daily delay table
\* the static tables of the latest feed date: routes "R" and "Q", stop "S"
LatestFeedDate == 0
routes == {[provider_key |-> "stm", feed_date |-> LatestFeedDate, id |-> <<r>>] : r \in {81, 82}}
stops == {[provider_key |-> "stm", feed_date |-> LatestFeedDate, id |-> <<83>>]}

\* getLatestFeedDate: the latest feed date of the provider, or none (no
\* static data, or the lookup failed)
FeedDateResults == {<<>>, <<LatestFeedDate>>}

\* the sum of the fractions <<sum, n>> the rows hold as averages
RECURSIVE sumOfAverages(_, _)
sumOfAverages(rows, column) ==
  IF rows = {} THEN <<0, 1>>
  ELSE LET row == CHOOSE x \in rows : TRUE
           rest == sumOfAverages(rows \ {row}, column)
       IN <<row[column][1] * rest[2] + rest[1] * row[column][2],
            row[column][2] * rest[2]>>

RECURSIVE sumColumn(_, _)
sumColumn(rows, column) ==
  IF rows = {} THEN 0
  ELSE LET row == CHOOSE x \in rows : TRUE
       IN row[column] + sumColumn(rows \ {row}, column)

\* AVG(rd.avg_arrival_delay): the averages of the rows, summed and divided
\* by the number of rows
avgOfColumn(rows, column) ==
  LET sum == sumOfAverages(rows, column)
  IN <<sum[1], sum[2] * Cardinality(rows)>>

fractionLess(a, b) == a[1] * b[2] < b[1] * a[2]

\* the rows of rt_delays_daily that join one row of the static table
joinedRows(db, static, column, feedDate, provider, startDate, endDate) ==
  {rd \in db :
     /\ rd.table = "rt_delays_daily"
     /\ rd.provider_key = static.provider_key
     /\ ~isSqlNull(rd[column]) /\ rd[column] = static.id
     /\ static.feed_date = feedDate
     /\ rd.provider_key = provider
     /\ rd.date >= startDate
     /\ rd.date <= endDate}

\* the groups of the SELECT, one per static row that joins a delay row
delayGroups(db, statics, column, feedDate, provider, startDate, endDate) ==
  {[id |-> static.id,
    avg_arrival_delay |-> avgOfColumn(rows, "avg_arrival_delay"),
    max_arrival_delay |-> CHOOSE d \in {r.max_arrival_delay : r \in rows} :
                            \A r \in rows : r.max_arrival_delay <= d,
    min_arrival_delay |-> CHOOSE d \in {r.min_arrival_delay : r \in rows} :
                            \A r \in rows : d <= r.min_arrival_delay,
    total_trips |-> sumColumn(rows, "trip_count")] :
     <<static, rows>> \in
       {x \in {<<t, joinedRows(db, t, column, feedDate, provider,
                               startDate, endDate)>> : t \in statics} :
          x[2] # {}}}

\* ORDER BY avg_arrival_delay DESC: the orders the groups may come in
orderedByAvgDesc(groups) ==
  {seq \in [1 .. Cardinality(groups) -> groups] :
     /\ \A i, j \in DOMAIN seq : i # j => seq[i] # seq[j]
     /\ \A i, j \in DOMAIN seq :
          i < j => ~fractionLess(seq[i].avg_arrival_delay,
                                 seq[j].avg_arrival_delay)}

analyticsResponse(metric, provider, startDate, endDate, feedDate, dbFails, data) ==
  IF ~Given(startDate)
    THEN [NoResp EXCEPT !.handler = metric, !.status = 400,
                        !.error = "start_date parameter required"]
  ELSE IF ~Given(feedDate)
    THEN [NoResp EXCEPT !.handler = metric, !.status = 404,
                        !.error = "No static data found for provider"]
  ELSE IF dbFails
    THEN [NoResp EXCEPT !.handler = metric, !.status = 500,
                        !.error = "Internal server error"]
  ELSE [NoResp EXCEPT !.handler = metric, !.status = 200,
                      !.provider = provider,
                      !.date = startDate,
                      !.end_date = IF Given(endDate) THEN endDate
                                   ELSE startDate,
                      !.count = Len(data), !.items = data]

handleAnalytics(metric, statics, column) ==
  /\ \E provider \in Providers, range \in RangeParams,
        feedDate \in FeedDateResults, dbFails \in BOOLEAN :
       \E data \in
          IF Given(range.start) /\ Given(feedDate) /\ ~dbFails
            THEN orderedByAvgDesc(
                   delayGroups(aggRows, statics, column, feedDate[1],
                               provider, range.start[1],
                               IF Given(range.end) THEN range.end[1]
                               ELSE range.start[1]))
            ELSE {<<>>} :
         resp' = analyticsResponse(metric, provider, range.start, range.end,
                                   feedDate, dbFails, data)
  /\ UNCHANGED <<ingestVars, decodeVars, aggRows, aggregated, seen,
                 staticVars>>

handleAnalyticsDelaysByRoute ==
  handleAnalytics("delays_by_route", routes, "route_id")

handleAnalyticsDelaysByStop ==
  handleAnalytics("delays_by_stop", stops, "stop_id")

\* ---- feed messages with a field no parser knows
\* field 15 in the four wire types: varint 1, varint 129 (two bytes), a
\* fixed64, a length-delimited field and a fixed32; the payloads are made
\* of bytes that read as tags and lengths of known fields
UnknownFields ==
  { <<120, 1>>, <<120, 129, 1>>, <<121, 18, 0, 10, 0, 24, 9, 8, 9>>,
    <<122, 3, 18, 1, 8>>, <<125, 24, 9, 13, 0>> }

\* the messages a field can be put into, outermost first
UnknownPlaces ==
  {"feed", "header", "entity", "trip_update", "trip", "stop_time_update",
   "arrival", "vehicle", "descriptor", "position"}

UnknownInputs ==
  [place : UnknownPlaces, side : {"front", "back"}, bytes : UnknownFields]

NoExtra == [place |-> "none", side |-> "front", bytes |-> <<>>]

\* the content of the message at place, with the extra field before or
\* after it when that is where it goes
within(extra, place, content) ==
  IF extra.place # place THEN content
  ELSE IF extra.side = "front" THEN extra.bytes \o content
  ELSE content \o extra.bytes

\* a feed of a trip update entity (trip "T", route "R", stop "S", arrival
\* delay 4) and a vehicle entity (route "R", vehicle "V", an empty
\* position, timestamp 9), header timestamp 5
writeFeedWith(extra) ==
  within(extra, "feed",
    LenDelim(1, within(extra, "header", VarintField(3, 5))) \o
    LenDelim(2, within(extra, "entity",
      LenDelim(1, <<49>>) \o
      LenDelim(3, within(extra, "trip_update",
        LenDelim(1, within(extra, "trip",
          LenDelim(1, <<84>>) \o LenDelim(3, <<82>>))) \o
        LenDelim(2, within(extra, "stop_time_update",
          LenDelim(1, <<83>>) \o
          LenDelim(2, within(extra, "arrival", VarintField(1, 4))))))))) \o
    LenDelim(2,
      LenDelim(1, <<50>>) \o
      LenDelim(4, within(extra, "vehicle",
        LenDelim(1, LenDelim(3, <<82>>)) \o
        LenDelim(2, within(extra, "descriptor", LenDelim(1, <<86>>))) \o
        LenDelim(3, within(extra, "position", <<>>)) \o
        VarintField(4, 9)))))

UnknownInit ==
  /\ fields \in UnknownInputs
  /\ buf = writeFeedWith(fields)
  /\ dec = NoDec
  /\ hashUnique = TRUE
  /\ IngestIdle
  /\ QueryIdle
  /\ StaticIdle

\* parseFeedMessage over the feed with the extra field and over the feed
\* without it, and skipField over the extra field alone, after its key
DecodeWithUnknown ==
  /\ dec.stage = "input"
  /\ dec' = [stage |-> "unknown",
             extended |-> parseFeedMessage(buf),
             plain |-> parseFeedMessage(writeFeedWith(NoExtra)),
             skipped |-> skipField(fields.bytes, 1,
                                   WireType(fields.bytes[1]))]
  /\ UNCHANGED <<buf, fields, ingestVars, queryVars, staticVars>>

UnknownNext == DecodeWithUnknown

UnknownSpec == UnknownInit /\ [][UnknownNext]_vars

\* ---- nested messages whose declared length is not the length written
\* the nested messages whose length prefix is written too large, how many
\* bytes too large, the arrival delay written, and what follows the entity
\* on the top level: nothing, field 1 as varint 9, or a second entity
NestedInputs ==
  [place : {"trip_update", "stop_time_update", "arrival"},
   excess : 0 .. 3,
   delay : {1, 2},
   sibling : {<<>>, <<8, 9>>, TripEntity(50, 85, 81, 83, 3)}]

\* a length-delimited field whose length prefix declares excess bytes more
\* than the payload has
LenDeclared(fieldNo, payload, excess) ==
  <<fieldNo * 8 + 2, Len(payload) + excess>> \o payload

\* the length-delimited field of the nested message at place
nested(in, place, fieldNo, payload) ==
  LenDeclared(fieldNo, payload, IF in.place = place THEN in.excess ELSE 0)

\* an entity with a trip update (trip "T", route "R", stop "S", an arrival
\* delay), each nested message last in its parent, and the sibling
writeNested(in) ==
  LenDelim(2,
    LenDelim(1, <<49>>) \o
    nested(in, "trip_update", 3,
      LenDelim(1, LenDelim(1, <<84>>) \o LenDelim(3, <<82>>)) \o
      nested(in, "stop_time_update", 2,
        LenDelim(1, <<83>>) \o
        nested(in, "arrival", 2, VarintField(1, in.delay))))) \o
  in.sibling

\* pos when the loop of parseEntity(u8, start, end) ends
RECURSIVE parseEntityCursor(_, _, _)
parseEntityCursor(u8, pos, end) ==
  IF ~(pos < end) THEN pos
  ELSE LET k == readVarint(u8, pos)
           wireType == WireType(k.value)
       IN IF wireType = 2
            THEN LET l == readVarint(u8, k.next)
                 IN parseEntityCursor(u8, l.next + l.value, end)
            ELSE parseEntityCursor(u8, skipField(u8, k.next, wireType), end)

NestedInit ==
  /\ fields \in NestedInputs
  /\ buf = writeNested(fields)
  /\ dec = NoDec
  /\ hashUnique = TRUE
  /\ IngestIdle
  /\ QueryIdle
  /\ StaticIdle

\* parseEntity over the range parseFeedMessage gives the first entity, on
\* the buffer and on the buffer cut at the end of that range
DecodeNested ==
  /\ dec.stage = "input"
  /\ \E subStart \in {readVarint(buf, 1).next} :
       \E subEnd \in {subStart + readVarint(buf, 1).value} :
         dec' = [stage |-> "nested",
                 subEnd |-> subEnd,
                 entity |-> parseEntity(buf, subStart, subEnd),
                 alone |-> parseEntity(subarray(buf, 0, subEnd), subStart,
                                       subEnd),
                 cursor |-> parseEntityCursor(buf, subStart, subEnd)]
  /\ UNCHANGED <<buf, fields, ingestVars, queryVars, staticVars>>

NestedNext == DecodeNested

NestedSpec == NestedInit /\ [][NestedNext]_vars

\* ---- static worker: POST /log
\* LOG_SHARED_SECRET: undefined when it is not configured, else a text
\* ("", "s" or "w")
LogSecrets == {AbsentStr, <<>>, <<115>>, <<119>>}

\* req.headers.get("X-Log-Secret"): null when the header is absent, else
\* its text ("", "s" or "w")
HeaderValues == {NullStr, <<>>, <<115>>, <<119>>}

\* the JSON bodies: a level, and a detail with or without r2_key and bytes
LogBodies == [level : {"INFO", "ERROR"}, file : BOOLEAN]

\* what may go wrong after the secret was accepted: req.json() throws, the
\* INSERT into ingest_log throws, the INSERT into gtfs_files throws
LogFailures == {"none", "json", "log", "files"}

\* only a request without the header is turned away
unauthorized_absentOnly(secret, provided) == provided = NullStr

\* !env.LOG_SHARED_SECRET || provided !== env.LOG_SHARED_SECRET
unauthorized(secret, provided) ==
  secret \in {AbsentStr, <<>>} \/ provided # secret

\* the records POST /log has written to ingest_log
externalLogs == {row \in ingestLog : row.id[1] = "log"}

\* log(env, level, message, provider_key, feed_id, detail) with the
\* defaults of the body
externalLogRow(body) ==
  [level |-> body.level, message |-> "External log",
   r2_key |-> IF body.file THEN <<"gtfs-static">> ELSE <<>>,
   provider_key |-> "stm", feed_id |-> 0,
   id |-> <<"log", Cardinality(externalLogs)>>]

\* INSERT INTO gtfs_files (...) with sha256 "github-action"
gtfsFileRow(body) ==
  [provider_key |-> "stm", feed_id |-> 0, sha256 |-> "github-action",
   bytes |-> 1, r2_key |-> <<"gtfs-static">>,
   rowid |-> Cardinality(gtfsFiles)]

logResponse(status) == [NoResp EXCEPT !.handler = "log", !.status = status]

\* fetch(req, env) for POST /log with the given X-Log-Secret
PostLog(provided) ==
  /\ Cardinality(externalLogs) < MaxLogs
  /\ IF unauthorized(logSecret, provided)
       THEN /\ resp' = logResponse(401)
            /\ UNCHANGED <<ingestLog, gtfsFiles>>
       ELSE \E body \in LogBodies, failure \in LogFailures :
              /\ failure = "files" => body.file
              /\ ingestLog' =
                   IF failure \in {"json", "log"} THEN ingestLog
                   ELSE ingestLog \cup {externalLogRow(body)}
              /\ gtfsFiles' =
                   IF failure = "none" /\ body.file
                     THEN gtfsFiles \cup {gtfsFileRow(body)}
                     ELSE gtfsFiles
              /\ resp' = logResponse(IF failure = "none" THEN 200 ELSE 500)
  /\ UNCHANGED <<now, hashUnique, r2, rawRows, pc, idx, ab, loc, attempts,
                 doneHashes, decodeVars, aggRows, aggregated, seen,
                 logSecret>>

LogInit ==
  /\ hashUnique = TRUE
  /\ IngestIdle
  /\ DecodeIdle
  /\ QueryIdle
  /\ logSecret \in LogSecrets
  /\ gtfsFiles = {}

LogNext == \E provided \in HeaderValues : PostLog(provided)

LogSpec == LogInit /\ [][LogNext]_vars

\* ---- the API specification
QueryInit ==
  /\ hashUnique = TRUE
  /\ IngestIdle
  /\ DecodeIdle
  /\ QueryIdle
  /\ StaticIdle

\* current data: snapshots arrive, time passes, requests are answered
QueryNext ==
  \/ \E i \in 1 .. Len(QueryFeeds) : \E body \in QueryFeeds[i].bodies :
       SaveSnapshot(i, body)
  \/ Elapse
  \/ handleCurrentTripUpdates
  \/ handleCurrentPositions

QuerySpec == QueryInit /\ [][QueryNext]_vars

\* historical data: trip update snapshots arrive, time passes, partitions
\* are aggregated, requests are answered
HistoryNext ==
  \/ \E body \in QueryFeeds[1].bodies : SaveSnapshot(1, body)
  \/ Elapse
  \/ Aggregate
  \/ handleHistorical
  \/ handleHistoricalRange

HistorySpec == QueryInit /\ [][HistoryNext]_vars

\* status: snapshots of both feed kinds arrive, time passes, the status is
\* asked for
StatusNext ==
  \/ \E i \in 1 .. Len(QueryFeeds) : \E body \in QueryFeeds[i].bodies :
       SaveSnapshot(i, body)
  \/ Elapse
  \/ handleStatus

StatusSpec == QueryInit /\ [][StatusNext]_vars

\* current trip updates: snapshots arrive, time passes, requests are answered
CurrentNext ==
  \/ \E body \in CurrentBodies : SaveSnapshot(1, body)
  \/ Elapse
  \/ handleCurrentTripUpdates

CurrentSpec == QueryInit /\ [][CurrentNext]_vars

\* aggregation: trip update snapshots arrive, time passes, partitions are
\* aggregated, some of them again, analytics requests are answered
AggNext ==
  \/ \E body \in AggBodies : SaveSnapshot(1, body)
  \/ Elapse
  \/ Aggregate
  \/ handleAnalyticsDelaysByRoute
  \/ handleAnalyticsDelaysByStop

AggSpec == QueryInit /\ [][AggNext]_vars

\* ------------------------------------------------- decoder specification
DecodeInit ==
  /\ buf \in Buffers
  /\ fields = <<>>
  /\ dec = NoDec
  /\ hashUnique = TRUE
  /\ IngestIdle
  /\ QueryIdle
  /\ StaticIdle

\* parseFeedMeta(ab) as saveRT calls it
DecodeMeta ==
  /\ dec.stage = "input"
  /\ dec' = [parseFeedMeta(buf) EXCEPT !.stage = "meta"]
  /\ UNCHANGED <<buf, fields, ingestVars, queryVars, staticVars>>

DecodeNext == DecodeMeta

DecodeSpec == DecodeInit /\ [][DecodeNext]_vars

\* ---------------------------------------------- written envelopes
\* a varint below 2^14 as the protobuf writer emits it
encodeVarint(v) ==
  IF v < 128 THEN <<v>> ELSE <<128 + (v % 128), v \div 128>>

\* one field on the wire: key, then the value by wire type
encodeField(f) ==
  encodeVarint(f.fieldNo * 8 + f.wireType) \o
    (CASE f.wireType = 0 -> encodeVarint(f.value)
       [] f.wireType = 2 -> encodeVarint(Len(f.payload)) \o f.payload
       [] OTHER -> f.payload)

RECURSIVE encodeFields(_)
encodeFields(fs) ==
  IF fs = <<>> THEN <<>> ELSE encodeField(Head(fs)) \o encodeFields(Tail(fs))

\* the top-level fields envelopes are written from: the header, entities,
\* and unknown fields of wire type 0, 1, 2 and 5 whose bytes look like
\* entity tags; field 2 as a varint is no entity; field 16 has a key of two
\* bytes
EnvelopeFields ==
  { [fieldNo |-> 1, wireType |-> 2, value |-> 0, payload |-> <<24, 5>>],
    [fieldNo |-> 2, wireType |-> 2, value |-> 0, payload |-> <<>>],
    [fieldNo |-> 2, wireType |-> 2, value |-> 0, payload |-> <<10, 1, 49>>],
    [fieldNo |-> 2, wireType |-> 0, value |-> 7, payload |-> <<>>],
    [fieldNo |-> 5, wireType |-> 0, value |-> 300, payload |-> <<>>],
    [fieldNo |-> 6, wireType |-> 1, value |-> 0,
     payload |-> <<18, 0, 18, 0, 18, 0, 18, 0>>],
    [fieldNo |-> 7, wireType |-> 2, value |-> 0, payload |-> <<18, 0>>],
    [fieldNo |-> 8, wireType |-> 5, value |-> 0, payload |-> <<18, 0, 18, 0>>],
    [fieldNo |-> 16, wireType |-> 0, value |-> 1, payload |-> <<>>] }

isEntityField(f) == f.fieldNo = 2 /\ f.wireType = 2

\* the number of entity fields an envelope was written with
entityFields(fs) == Cardinality({i \in 1 .. Len(fs) : isEntityField(fs[i])})

EnvelopeInit ==
  /\ fields \in SeqsUpTo(EnvelopeFields, MaxFields)
  /\ buf = encodeFields(fields)
  /\ dec = NoDec
  /\ hashUnique = TRUE
  /\ IngestIdle
  /\ QueryIdle
  /\ StaticIdle

EnvelopeNext == DecodeMeta

EnvelopeSpec == EnvelopeInit /\ [][EnvelopeNext]_vars

\* ---- the two envelope decoders side by side
\* top-level fields of envelopes with more than one header: headers with
\* timestamp 5, with timestamp 7, without fields and with an unknown field
\* only, entities, and an unknown varint field
AgreeFields ==
  { [fieldNo |-> 1, wireType |-> 2, value |-> 0, payload |-> <<24, 5>>],
    [fieldNo |-> 1, wireType |-> 2, value |-> 0, payload |-> <<24, 7>>],
    [fieldNo |-> 1, wireType |-> 2, value |-> 0, payload |-> <<>>],
    [fieldNo |-> 1, wireType |-> 2, value |-> 0, payload |-> <<40, 1>>],
    [fieldNo |-> 2, wireType |-> 2, value |-> 0, payload |-> <<>>],
    [fieldNo |-> 2, wireType |-> 2, value |-> 0, payload |-> <<10, 1, 49>>],
    [fieldNo |-> 5, wireType |-> 0, value |-> 300, payload |-> <<>>] }

\* written envelopes, and every short buffer
AgreeInit ==
  /\ \/ /\ fields \in SeqsUpTo(AgreeFields, MaxFields)
        /\ buf = encodeFields(fields)
     \/ /\ fields = <<>>
        /\ buf \in Buffers
  /\ dec = NoDec
  /\ hashUnique = TRUE
  /\ IngestIdle
  /\ QueryIdle
  /\ StaticIdle

\* parseFeedMeta(ab) of the ingestion worker and parseFeedMessage(ab) of
\* the API worker over the same bytes
DecodeBoth ==
  /\ dec.stage = "input"
  /\ dec' = [stage |-> "both", meta |-> parseFeedMeta(buf),
             message |-> parseFeedMessage(buf)]
  /\ UNCHANGED <<buf, fields, ingestVars, queryVars, staticVars>>

AgreeNext == DecodeBoth

AgreeSpec == AgreeInit /\ [][AgreeNext]_vars

\* ----------------------------------- written stop time updates and vehicles
\* an int32 as the protobuf writer emits it: a negative value is sign-extended
\* to 64 bits and takes ten bytes (here for values from -127 to 2^14 - 1)
encodeInt32(v) ==
  IF v >= 0 THEN encodeVarint(v)
  ELSE <<128 + (128 + v)>> \o [i \in 1 .. 8 |-> 255] \o <<1>>

\* a field of a written message is <<>> when it is left out, else <<value>>
DelayInputs == {<<>>, <<0>>, <<5>>, <<-3>>}
TimeInputs == {<<>>, <<0>>, <<7>>}
EventInputs ==
  {<<>>} \cup {<<[delay |-> d, time |-> t]>> : d \in DelayInputs,
                                               t \in TimeInputs}

\* StopTimeEvent { delay = 1 (int32), time = 2 (int64) }
writeStopTimeEvent(ev) ==
  (IF Given(ev.delay) THEN <<8>> \o encodeInt32(ev.delay[1]) ELSE <<>>) \o
  (IF Given(ev.time) THEN <<16>> \o encodeVarint(ev.time[1]) ELSE <<>>)

\* StopTimeUpdate { stop_id = 1 ("S"), arrival = 2, departure = 3 } as the
\* parser numbers them
writeStopTimeUpdate(in) ==
  LenDelim(1, <<83>>) \o
  (IF Given(in.arrival)
     THEN LenDelim(2, writeStopTimeEvent(in.arrival[1])) ELSE <<>>) \o
  (IF Given(in.departure)
     THEN LenDelim(3, writeStopTimeEvent(in.departure[1])) ELSE <<>>)

\* a float field of a position: the tag of a fixed32 and the four bytes of
\* the single 0.0
writeFloatZero(fieldNo) == <<fieldNo * 8 + 5, 0, 0, 0, 0>>

\* Position { latitude = 1, longitude = 2, bearing = 3, speed = 4 }
writePosition(p) ==
  (IF Given(p.latitude) THEN writeFloatZero(1) ELSE <<>>) \o
  (IF Given(p.longitude) THEN writeFloatZero(2) ELSE <<>>) \o
  (IF Given(p.bearing) THEN writeFloatZero(3) ELSE <<>>) \o
  (IF Given(p.speed) THEN writeFloatZero(4) ELSE <<>>)

\* VehiclePosition { position = 3, timestamp = 4 } as the parser numbers them
writeVehiclePosition(in) ==
  (IF Given(in.position)
     THEN LenDelim(3, writePosition(in.position[1])) ELSE <<>>) \o
  (IF Given(in.timestamp) THEN VarintField(4, in.timestamp[1]) ELSE <<>>)

FloatInputs == {<<>>, <<0>>}
PositionInputs ==
  {<<>>} \cup {<<[latitude |-> la, longitude |-> lo, bearing |-> b,
                  speed |-> sp]>> :
                 la \in FloatInputs, lo \in FloatInputs, b \in FloatInputs,
                 sp \in FloatInputs}

MessageInputs ==
  {[kind |-> "stu", arrival |-> a, departure |-> d] :
     a \in EventInputs, d \in EventInputs} \cup
  {[kind |-> "vehicle", position |-> p, timestamp |-> t] :
     p \in PositionInputs, t \in TimeInputs}

MessageInit ==
  /\ fields \in MessageInputs
  /\ buf = IF fields.kind = "stu" THEN writeStopTimeUpdate(fields)
                                  ELSE writeVehiclePosition(fields)
  /\ dec = NoDec
  /\ hashUnique = TRUE
  /\ IngestIdle
  /\ QueryIdle
  /\ StaticIdle

\* parseStopTimeUpdate over the whole buffer
DecodeStopTimeUpdate ==
  /\ dec.stage = "input"
  /\ fields.kind = "stu"
  /\ dec' = [stage |-> "stu", stu |-> parseStopTimeUpdate(buf, 0, Len(buf))]
  /\ UNCHANGED <<buf, fields, ingestVars, queryVars, staticVars>>

\* parseVehiclePosition over the whole buffer
DecodeVehiclePosition ==
  /\ dec.stage = "input"
  /\ fields.kind = "vehicle"
  /\ dec' = [stage |-> "vehicle",
             vp |-> parseVehiclePosition(buf, 0, Len(buf))]
  /\ UNCHANGED <<buf, fields, ingestVars, queryVars, staticVars>>

MessageNext == DecodeStopTimeUpdate \/ DecodeVehiclePosition

MessageSpec == MessageInit /\ [][MessageNext]_vars

\* ------------------------------------------------------------------ claims
hashRows(r) ==
  {row \in rawRows : /\ row.table = TableOf(feed(r).feed_kind)
                     /\ row.provider_key = feed(r).provider_key
                     /\ row.hash_sha256 = sha256Hex(ab[r])}

\* C1: an ingestion attempt that starts after a saveRT call with the same
\* provider, feed kind and bytes has returned never gets past the dedupe
\* lookup: it writes no blob and no metadata row.
C1_NoWriteAfterCompletedSameBytes ==
  \A r \in Runs :
    pc[r] \in {"put", "insert", "loginfo", "catch"} => ~loc[r].priorDone

\* a run has just been skipped on bytes that an earlier, completed attempt
\* had submitted
C1_Witness ==
  \E r \in Runs :
    /\ pc[r] = "loop"
    /\ idx[r] > 1
    /\ attempts[r][idx[r] - 1] = "skipped"
    /\ loc[r].priorDone

\* C2: an attempt that loses the race on identical bytes (its lookup found
\* nothing, the other attempt's row is there when its INSERT runs) ends as
\* a successful no-op: exactly one row for the hash, no error raised, no
\* ERROR log record.
C2_RaceLoserIsNoOp ==
  /\ \A r \in Runs :
       loc[r].raceLost => pc[r] # "catch" /\ Cardinality(hashRows(r)) = 1
  /\ \A l \in ingestLog : l.message # "UNIQUE constraint failed"

\* the last byte carries the continuation bit
EndsMidVarint(bytes) == Len(bytes) > 0 /\ bytes[Len(bytes)] >= 128

\* C3: a buffer truncated mid-varint is rejected: no blob and no metadata
\* row is ever written for it.
C3_TruncatedNeverStored ==
  /\ \A o \in r2 : ~EndsMidVarint(o.bytes)
  /\ \A row \in rawRows : ~EndsMidVarint(row.hash_sha256[2])

\* the snapshots of a provider and feed kind inside the hot window at t, the
\* boundary included
hotSnapshots(provider, feedKind, t) ==
  {o \in r2 : /\ o.key[2] = provider
              /\ o.key[3] = feedKind
              /\ o.uploaded >= t - HoursBack * MsPerHour}

\* C4: in every state no file that listHotRTFiles returns was uploaded
\* exactly at the boundary of the hot window (now minus 24 hours); such a
\* snapshot is cold and belongs to the aggregation only.
C4_BoundarySnapshotIsCold ==
  \A i \in 1 .. Len(QueryFeeds) :
    LET files == listHotRTFiles(r2, QueryFeeds[i].provider_key,
                                QueryFeeds[i].feed_kind, HoursBack, now)
    IN \A j \in 1 .. Len(files) :
         files[j].uploaded # getHoursAgo(now, HoursBack)

C6_HistoricalNeverTouchesBlobs ==
  resp.handler \in {"historical", "range"} =>
    /\ resp.lists = 0
    /\ resp.gets = <<>>
    /\ resp.decodes = 0

\* a historical request was answered "not found" for a date whose partition
\* holds a snapshot older than the hot window and no aggregate row
C6_Witness ==
  /\ resp.handler = "historical"
  /\ resp.status = 404
  /\ Given(resp.date)
  /\ coldSnapshots(r2, resp.provider, resp.feed_kind, resp.date[1], now) # {}
  /\ \A row \in aggRows : row.date # resp.date[1]

\* C7: the answer to a historical query for a partition that was never
\* aggregated is a 404 that differs, in status or in message, from the
\* answer for an aggregated partition without matching rows and from the
\* answer to a query that failed in the store.
C7_NeverAggregatedIsDistinguishable ==
  \A a, b \in seen :
    a.case = "never" /\ b.case \in {"empty", "failed"} =>
      /\ a.status = 404
      /\ <<a.status, a.error>> # <<b.status, b.error>>

C9_EveryStartedRunFinishes ==
  \A r \in Runs : (pc[r] = "loop") ~> (pc[r] = "done")

\* C10: the decoder never runs a loop iteration with the cursor at or
\* beyond the end of the buffer, the number of iterations is bounded by
\* the buffer length, and a length-delimited field that reaches past the
\* end makes the decode fail.
C10_DecodeFailsFast ==
  dec.stage = "meta" =>
    /\ dec.oob = 0
    /\ dec.iters <= Len(buf)
    /\ dec.overrun => dec.threw

\* C11: for every envelope written from top-level fields, the entity count
\* parseFeedMeta returns is the number of length-delimited fields number 2
\* among them, whatever unknown fields of wire type 0, 1, 2 or 5 stand
\* between them.
C11_EntityCountIsEntityFields ==
  dec.stage = "meta" /\ buf = encodeFields(fields) =>
    /\ dec.entityCount = entityFields(fields)
    /\ ~dec.threw

\* an envelope with an unknown field of each wire type was decoded to the
\* two entities around them
C11_Witness ==
  /\ dec.stage = "meta"
  /\ dec.entityCount = 2
  /\ Len(fields) = 3
  /\ isEntityField(fields[1])
  /\ fields[2].wireType = 5
  /\ isEntityField(fields[3])

\* the written and the decoded stop time events of a stop time update, side
\* by side
eventPairs ==
  {<<fields.arrival, dec.stu.arrival>>,
   <<fields.departure, dec.stu.departure>>}

\* C13: the delay of a decoded stop time event is the signed integer the
\* feed was written with: a negative delay comes back as that negative
\* value.
C13_DelaysAreSigned ==
  dec.stage = "stu" =>
    \A pair \in eventPairs :
      Given(pair[1]) /\ Given(pair[1][1].delay) =>
        pair[2].delay = pair[1][1].delay[1]

\* absent as JavaScript reports it: null or undefined
IsAbsent(v) == v \in {Null, Undefined}
IsAbsentFloat(v) == v \in {<<"null">>, <<"undefined">>}
FloatZero == <<"f32", <<0, 0, 0, 0>>>>

\* a written numeric field and what the decoder reports for it
reportedRight(written, reported) ==
  /\ ~Given(written) => IsAbsent(reported)
  /\ written = <<0>> => reported = 0

reportedRightFloat(written, reported) ==
  /\ ~Given(written) => IsAbsentFloat(reported)
  /\ written = <<0>> => reported = FloatZero

\* C14: every numeric field of a decoded stop time event and of a decoded
\* vehicle position is reported as absent (null or undefined) when the
\* bytes do not carry it, and as 0 when they carry the value 0.
C14_AbsentIsNotZero ==
  /\ dec.stage = "stu" =>
       \A pair \in eventPairs :
         IF Given(pair[1])
           THEN /\ reportedRight(pair[1][1].delay, pair[2].delay)
                /\ reportedRight(pair[1][1].time, pair[2].time)
           ELSE IsAbsent(pair[2].delay) /\ IsAbsent(pair[2].time)
  /\ dec.stage = "vehicle" =>
       /\ ~dec.vp.threw
       /\ reportedRight(fields.timestamp, dec.vp.timestamp)
       /\ IF Given(fields.position)
            THEN \A name \in {"latitude", "longitude", "bearing", "speed"} :
                   reportedRightFloat(fields.position[1][name],
                                      dec.vp.position[name])
            ELSE \A name \in {"latitude", "longitude", "bearing", "speed"} :
                   IsAbsentFloat(dec.vp.position[name])

\* C15: whatever runs of the aggregation there were, also repeated over the
\* same snapshots, every bucket key has exactly one row in its table, the
\* keys with a null route, stop or trip included: a later run overwrites.
C15_OneRowPerBucket ==
  \A a, b \in aggRows : sameBucket(a, b) => a = b

\* the delays the rows were made of, summed, and their number
RECURSIVE contributions(_)
contributions(rows) ==
  IF rows = {} THEN <<0, 0>>
  ELSE LET row == CHOOSE x \in rows : TRUE
           rest == contributions(rows \ {row})
       IN <<row.avg_arrival_delay[1] + rest[1],
            row.avg_arrival_delay[2] + rest[2]>>

sameFraction(a, b) == a[1] * b[2] = b[1] * a[2]

\* the group of an analytics answer reports the mean over the entities that
\* went into the daily rows of the group
reportsTrueMean(group, statics, column) ==
  \A static \in statics :
    static.id = group.id =>
      sameFraction(group.avg_arrival_delay,
                   contributions(joinedRows(aggRows, static, column,
                                            LatestFeedDate, resp'.provider,
                                            resp'.date[1],
                                            resp'.end_date[1])))

\* C16: every average arrival delay the delays-by-route and delays-by-stop
\* analytics report for a group is the sum of the delays of all the entities
\* that contributed to the group's daily rows of the date range, divided by
\* their number.
C16_AveragesAreTrueMeans ==
  [][/\ resp'.status = 200
     /\ \/ handleAnalyticsDelaysByRoute
        \/ handleAnalyticsDelaysByStop
     => \A i \in DOMAIN resp'.items :
          /\ resp'.handler = "delays_by_route"
               => reportsTrueMean(resp'.items[i], routes, "route_id")
          /\ resp'.handler = "delays_by_stop"
               => reportsTrueMean(resp'.items[i], stops, "stop_id")]_vars

\* the run r is under way: its feed query has answered and its loop has
\* not ended
underWay(r) == pc[r] \notin {"idle", "done"}

\* the run starts the fetch of its i-th source
startsFetch(r, i) == FetchBegin(r) /\ idx[r] = i

\* C17: in a scheduled run that is under way, once the fetches of the
\* sources before it have been started, the fetch of a source can start,
\* whether or not the ingestion of those sources has finished: the sources
\* are ingested as concurrent tasks, none waits for another to finish.
C17_FetchesStartConcurrently ==
  \A r \in Runs : \A i \in FeedIdx :
    /\ underWay(r)
    /\ attempts[r][i] = "none"
    /\ \A j \in 1 .. i - 1 : attempts[r][j] # "none"
    => ENABLED startsFetch(r, i)

\* the trip update snapshots in the store
tripSnapshots ==
  {o \in r2 : \E d \in QueryDates :
     o \in prefixObjects(r2, "stm", "gtfsrt_trip_updates", d)}

\* the snapshot ingested last
isMostRecent(o) == \A p \in tripSnapshots : p.uploaded <= o.uploaded

\* the entities of a decoded snapshot that are trip updates
tripEntities(feedMsg) ==
  SelectSeq(feedMsg.entity, LAMBDA e : e.trip_update # <<>>)

\* GET /api/v1/rt/trip-updates without filters
unfilteredTripUpdates ==
  /\ resp' = currentResponse("current", "gtfsrt_trip_updates", "stm",
                LAMBDA es : tripUpdates(es, <<>>, <<>>))
  /\ UNCHANGED <<ingestVars, decodeVars, aggRows, aggregated, seen,
                 staticVars>>

\* C18: when two snapshots of the trip updates source are stored and the
\* one ingested last is in the hot window, the answer to an unfiltered
\* request for the current trip updates holds one result per entity of that
\* snapshot, in their order, and nothing else.
C18_OneResultPerEntityOfLatest ==
  [][/\ unfilteredTripUpdates
     /\ Cardinality(tripSnapshots) = 2
     => \A o \in tripSnapshots :
          isMostRecent(o) /\ isHot(o.uploaded, getHoursAgo(now, HoursBack))
          => LET es == tripEntities(feedMessageOf[o.bytes])
             IN /\ Len(resp'.items) = Len(es)
                /\ \A i \in DOMAIN es :
                     resp'.items[i].trip_id = es[i].trip_update[1].trip.trip_id]_vars

\* the attempt of run r on its i-th source has ended
attemptEnded(r, i) == attempts[r][i] \in {"saved", "skipped", "http", "error"}

\* the ingest_log records of the attempt
outcomeRecords(r, i) == {row \in ingestLog : row.id = <<r, i>>}

\* C19: every source a scheduled run has dealt with has an outcome record
\* of that attempt, and the record of an attempt that saveRT skipped as a
\* duplicate is not an error record.
C19_EveryOutcomeRecorded ==
  \A r \in Runs : \A i \in FeedIdx :
    attemptEnded(r, i) =>
      /\ outcomeRecords(r, i) # {}
      /\ attempts[r][i] = "skipped" =>
           \A row \in outcomeRecords(r, i) : row.level # "ERROR"

\* C20: the bytes stored under a key of the snapshot store never change:
\* whatever is ingested later, also another snapshot of the same provider
\* and feed kind within the same clock second, every stored object is
\* still there with the bytes it was written with.
C20_StoredBytesNeverChange ==
  [][\A o \in r2 : \E p \in r2' : p.key = o.key /\ p.bytes = o.bytes]_vars

\* the snapshot holds, right after its header, the vehicle entity that
\* VehicleBody holds alone
holdsPlainVehicle(bytes) ==
  /\ Len(bytes) >= 4 + Len(VehicleEntity(49, 86, 82, 9))
  /\ SubSeq(bytes, 5, 4 + Len(VehicleEntity(49, 86, 82, 9)))
       = VehicleEntity(49, 86, 82, 9)

\* C12: a positions request that reads a snapshot holding a decodable
\* vehicle entity completes (status 200) and returns that entity, also when
\* another entity of the snapshot cannot be decoded: that one is skipped.
C12_UndecodableEntityIsSkipped ==
  [][ handleCurrentPositions /\ Len(resp'.gets) = 1
        /\ holdsPlainVehicle(readHotRTFile(r2, resp'.gets[1]))
      => /\ resp'.status = 200
         /\ \E i \in 1 .. Len(resp'.items) :
              resp'.items[i].vehicle_id = <<86>> ]_vars

\* the raw rows the attempt of run r on its i-th source inserted
rawRowsOf(r, i) == {row \in rawRows : row.rowid = <<r, i>>}

\* the step is one of run r between the answer to its fetch with a
\* non-success status and the end of that pass of the loop
handlesHttpError(r) ==
  /\ pc[r] # pc'[r]
  /\ pc'[r] = "httperr" \/ pc[r] = "httperr"

insideHotWindow(feedKind) ==
  {o \in r2 : /\ o.key[2] = "stm"
              /\ o.key[3] = feedKind
              /\ o.uploaded > getHoursAgo(now, HoursBack)}

\* the entry of the status answer is the summary of the feed kind
summarises(entry, feedKind) ==
  LET hot == insideHotWindow(feedKind)
  IN /\ entry.file_count = Cardinality(hot)
     /\ hot # {} =>
          \E o \in hot :
            /\ \A p \in hot : p.uploaded <= o.uploaded
            /\ entry.latest_file = <<o.key>>
            /\ entry.latest_timestamp = <<feedMessageOf[o.bytes].timestamp>>

\* C22: the status answer reports for trip updates and for vehicle
\* positions the key of the latest snapshot in the hot window, the header
\* timestamp of that snapshot and the number of snapshots in the hot window.
C22_StatusSummarisesHotWindow ==
  [][handleStatus =>
       /\ summarises(resp'.items[1], "gtfsrt_trip_updates")
       /\ summarises(resp'.items[2], "gtfsrt_vehicle_positions")]_vars

\* C23: every historical request with a date that the store answered
\* without a matching aggregate row, whether the partition was never
\* aggregated or was aggregated to nothing that matches, got status 200.
C23_NoRowsIsNotAnError ==
  \A a \in seen : a.case \in {"never", "empty"} => a.status = 200

\* isRecentTimestamp of the tests: a timestamp in seconds less than 24 hours
\* before t
isRecentTimestamp(timestamp, t) ==
  t - timestamp * MsPerSecond < HoursBack * MsPerHour

carriesSecret(provided) == logSecret # AbsentStr /\ provided = logSecret

\* C25: a POST /log request that does not carry the configured shared
\* secret is answered 401 and changes neither ingest_log nor gtfs_files;
\* ingest_log and gtfs_files change only in answer to a request that
\* carries it.
C25_LogNeedsSharedSecret ==
  [][\A provided \in HeaderValues :
       PostLog(provided) /\ ~carriesSecret(provided) =>
         /\ resp'.status = 401
         /\ ingestLog' = ingestLog
         /\ gtfsFiles' = gtfsFiles]_vars

\* both tables hold a record of POST /log, and the last request was turned
\* away
C25_Witness ==
  /\ externalLogs # {}
  /\ gtfsFiles # {}
  /\ resp.handler = "log"
  /\ resp.status = 401

\* C26: a position submessage whose fields are fixed32 fields 1 to 4
\* (latitude, longitude, bearing, speed) is decoded without an error, and
\* every field it carries is reported with the 4 bytes written for it.
C26_FixedFieldsAreRead ==
  dec.stage = "vehicle" /\ Given(fields.position) =>
    /\ ~dec.vp.threw
    /\ \A name \in {"latitude", "longitude", "bearing", "speed"} :
         Given(fields.position[1][name]) =>
           dec.vp.position[name] = FloatZero

\* C27: a well-formed field with an unknown field number (wire type 0, 1,
\* 2 or 5) put into the feed message or into any message nested in it
\* changes nothing of what is decoded: the same entities and the same
\* header timestamp come out, and skipField moves over exactly the bytes
\* of the field.
C27_UnknownFieldsChangeNothing ==
  dec.stage = "unknown" =>
    /\ dec.extended = dec.plain
    /\ dec.skipped = Len(fields.bytes)

\* an unknown fixed32 field inside the position submessage was decoded
\* over, and both entities and the header timestamp came out
C27_Witness ==
  /\ dec.stage = "unknown"
  /\ fields.place = "position"
  /\ WireType(fields.bytes[1]) = 5
  /\ Len(dec.extended.entity) = 2
  /\ dec.extended.timestamp = 5
  /\ ~dec.extended.threw

\* the run is inside saveRT or in the catch block that follows it
savingNow(r) == pc[r] \in {"lookup", "put", "insert", "loginfo", "catch"}

\* the raw row and the blob are of the same provider, feed kind and bytes
rowOfBlob(row, o) ==
  /\ row.hash_sha256 = sha256Hex(o.bytes)
  /\ row.provider_key = o.key[2]
  /\ row.table = TableOf(o.key[3])

\* C28: whenever no ingestion attempt is under way, the blob store and the
\* raw tables agree: every blob has a raw row with its fingerprint and
\* every raw row has its blob, also after attempts whose blob write or
\* row insert failed.
C28_BlobsAndRowsAgree ==
  (\A r \in Runs : ~savingNow(r)) =>
    /\ \A o \in r2 : \E row \in rawRows : rowOfBlob(row, o)
    /\ \A row \in rawRows : \E o \in r2 : rowOfBlob(row, o)

\* C29: over the same bytes parseFeedMeta and parseFeedMessage report the
\* same number of entities and the same header timestamp, also when the
\* bytes hold more than one header field.
C29_DecodersAgree ==
  dec.stage = "both" =>
    /\ ~dec.message.threw
    /\ Len(dec.message.entity) = dec.meta.entityCount
    /\ dec.message.timestamp = dec.meta.headerTsSec

\* C30: the decode of an entity stays within the entity's range, whatever
\* lengths the messages nested in it declare: what is decoded does not
\* depend on the bytes after the entity (no sibling byte is read), and
\* when the decode ends the cursor is not beyond the entity's end.
C30_NestedDecodeStaysInRange ==
  dec.stage = "nested" =>
    /\ dec.entity = dec.alone
    /\ dec.cursor <= dec.subEnd

====
